---------------------------- MODULE Spec2Model ----------------------------
(***************************************************************************)
(* A model of the Rust Memory Monitor extension (src/src/extension.ts):    *)
(* the static declaration scanner, the heuristic size estimator, the file  *)
(* discoverer and the MemoryMonitorProvider that posts scan results to its *)
(* webview.  Source text is modelled as TLA+ strings, character by         *)
(* character; the regular expressions of the source are translated to      *)
(* syntax trees that a backtracking matcher interprets.                    *)
(***************************************************************************)
EXTENDS Integers, Sequences, FiniteSets, TLC

(***************************************************************************)
(* JavaScript string primitives.                                          *)
(***************************************************************************)
Ch(s, i) == SubSeq(s, i, i)

Substring(s, from, to) == SubSeq(s, from, to - 1)

StartsWith(s, t) == Len(t) <= Len(s) /\ SubSeq(s, 1, Len(t)) = t

EndsWith(s, t) == Len(t) <= Len(s) /\ SubSeq(s, Len(s) - Len(t) + 1, Len(s)) = t

Includes(s, t) == \E i \in 1..(Len(s) - Len(t) + 1) : SubSeq(s, i, i + Len(t) - 1) = t

SetMin(S) == CHOOSE x \in S : \A y \in S : x <= y

SetMax(S) == CHOOSE x \in S : \A y \in S : x >= y

WS == {" ", "\t", "\n", "\r"}

TrimStart(s) ==
    LET black == {i \in 1..Len(s) : Ch(s, i) \notin WS}
    IN IF black = {} THEN "" ELSE SubSeq(s, SetMin(black), Len(s))

TrimEnd(s) ==
    LET black == {i \in 1..Len(s) : Ch(s, i) \notin WS}
    IN IF black = {} THEN "" ELSE SubSeq(s, 1, SetMax(black))

Trim(s) == TrimEnd(TrimStart(s))

\* s.indexOf(t, from): the first occurrence of t at or after from, 0 when none
IndexOf(s, t, from) ==
    LET occ == {i \in from..(Len(s) - Len(t) + 1) : SubSeq(s, i, i + Len(t) - 1) = t}
    IN IF occ = {} THEN 0 ELSE SetMin(occ)

\* s.split(sep): the pieces of s between the occurrences of sep, left to right
RECURSIVE SplitFrom(_, _, _)
SplitFrom(s, sep, start) ==
    LET i == IndexOf(s, sep, start)
    IN IF i = 0 THEN << SubSeq(s, start, Len(s)) >>
       ELSE << SubSeq(s, start, i - 1) >> \o SplitFrom(s, sep, i + Len(sep))

Split(s, sep) == SplitFrom(s, sep, 1)

Lower == {"a", "b", "c", "d", "e", "f", "g", "h", "i", "j", "k", "l", "m",
          "n", "o", "p", "q", "r", "s", "t", "u", "v", "w", "x", "y", "z"}

Upper == {"A", "B", "C", "D", "E", "F", "G", "H", "I", "J", "K", "L", "M",
          "N", "O", "P", "Q", "R", "S", "T", "U", "V", "W", "X", "Y", "Z"}

UpperLetters == "ABCDEFGHIJKLMNOPQRSTUVWXYZ"

LowerLetters == "abcdefghijklmnopqrstuvwxyz"

LowerOf(c) ==
    IF c \in Upper THEN Ch(LowerLetters, CHOOSE i \in 1..26 : Ch(UpperLetters, i) = c) ELSE c

\* s.toLowerCase()
RECURSIVE toLowerCase(_)
toLowerCase(s) == IF s = "" THEN "" ELSE LowerOf(Ch(s, 1)) \o toLowerCase(SubSeq(s, 2, Len(s)))

Digit == {"0", "1", "2", "3", "4", "5", "6", "7", "8", "9"}

DigitVal(c) == CASE c = "0" -> 0 [] c = "1" -> 1 [] c = "2" -> 2 [] c = "3" -> 3
                 [] c = "4" -> 4 [] c = "5" -> 5 [] c = "6" -> 6 [] c = "7" -> 7
                 [] c = "8" -> 8 [] c = "9" -> 9

\* parseInt of a string of decimal digits (the only strings \d+ captures)
RECURSIVE ParseInt(_)
ParseInt(s) == IF Len(s) = 0 THEN 0
               ELSE 10 * ParseInt(SubSeq(s, 1, Len(s) - 1)) + DigitVal(Ch(s, Len(s)))

(***************************************************************************)
(* Regular expressions.  A regex is a tree of records; MatchK matches a    *)
(* list of regexes (the continuation) at position i of s with the          *)
(* backtracking priorities of the JavaScript engine and yields the first   *)
(* success, as RegExp.prototype.exec does.  Every quantified item of the   *)
(* source's regexes other than an optional group is a character class, so  *)
(* Star and LazyStar take a class.                                         *)
(***************************************************************************)
Lit(str)    == [op |-> "lit", s |-> str]
Set(chars)  == [op |-> "set", cs |-> chars]
NSet(chars) == [op |-> "nset", cs |-> chars]
Cat(rs)     == [op |-> "cat", rs |-> rs]
Alt(rs)     == [op |-> "alt", rs |-> rs]
Star(c)     == [op |-> "star", c |-> c]
LazyStar(c) == [op |-> "lazystar", c |-> c]
Plus(c)     == Cat(<< c, Star(c) >>)
LazyPlus(c) == Cat(<< c, LazyStar(c) >>)
Opt(r)      == Alt(<< r, Cat(<< >>) >>)
Grp(k, r)   == [op |-> "grp", k |-> k, r |-> r]
NLook(r)    == [op |-> "nlook", r |-> r]
WordB       == [op |-> "wordb"]
Eoi         == [op |-> "eoi"]
Dot         == NSet({"\n", "\r"})
Sp          == Set(WS)
IdStart     == Set(Lower \cup Upper \cup {"_"})
IdChar      == Set(Lower \cup Upper \cup Digit \cup {"_"})
Ident       == Cat(<< IdStart, Star(IdChar) >>)

NGroups == 4

NoCaps == [k \in 1..NGroups |-> << 0, 0 >>]

Fail == [ok |-> FALSE]

IsWordAt(s, i) == i >= 1 /\ i <= Len(s) /\ Ch(s, i) \in (Lower \cup Upper \cup Digit \cup {"_"})

InClass(c, ch) == IF c.op = "set" THEN ch \in c.cs ELSE ch \notin c.cs

\* the length of the longest run of characters of class c that starts at i
RunLen(c, s, i) ==
    LET stops == {j \in i..Len(s) : ~InClass(c, Ch(s, j))}
    IN IF stops = {} THEN Len(s) + 1 - i ELSE SetMin(stops) - i

\* whether the first item of the continuation k can match at position i at all
CanStart(k, s, i) ==
    IF k = << >> THEN TRUE
    ELSE LET r == Head(k)
         IN CASE r.op = "lit" -> i + Len(r.s) - 1 <= Len(s) /\ SubSeq(s, i, i + Len(r.s) - 1) = r.s
              [] r.op \in {"set", "nset"} -> i <= Len(s) /\ InClass(r, Ch(s, i))
              [] OTHER -> TRUE

RECURSIVE MatchK(_, _, _, _)
MatchK(k, s, i, caps) ==
    IF k = << >> THEN [ok |-> TRUE, end |-> i, caps |-> caps]
    ELSE LET r == Head(k)
             rest == Tail(k)
         IN CASE r.op = "lit" ->
                   IF i + Len(r.s) - 1 <= Len(s) /\ SubSeq(s, i, i + Len(r.s) - 1) = r.s
                   THEN MatchK(rest, s, i + Len(r.s), caps) ELSE Fail
              [] r.op \in {"set", "nset"} ->
                   IF i <= Len(s) /\ InClass(r, Ch(s, i))
                   THEN MatchK(rest, s, i + 1, caps) ELSE Fail
              [] r.op = "cat" -> MatchK(r.rs \o rest, s, i, caps)
              [] r.op = "alt" ->
                   IF r.rs = << >> THEN Fail
                   ELSE LET a == MatchK(<< Head(r.rs) >> \o rest, s, i, caps)
                        IN IF a.ok THEN a
                           ELSE MatchK(<< Alt(Tail(r.rs)) >> \o rest, s, i, caps)
              [] r.op \in {"star", "lazystar"} ->
                   \* the quantifier may take 0..RunLen characters; a greedy one
                   \* settles on the longest prefix after which the rest matches,
                   \* a lazy one on the shortest
                   LET good == {n \in 0..RunLen(r.c, s, i) :
                                  CanStart(rest, s, i + n) /\ MatchK(rest, s, i + n, caps).ok}
                   IN IF good = {} THEN Fail
                      ELSE IF r.op = "star" THEN MatchK(rest, s, i + SetMax(good), caps)
                      ELSE MatchK(rest, s, i + SetMin(good), caps)
              [] r.op = "grp" ->
                   MatchK(<< r.r, [op |-> "endgrp", k |-> r.k, from |-> i] >> \o rest, s, i, caps)
              [] r.op = "endgrp" ->
                   MatchK(rest, s, i, [caps EXCEPT ![r.k] = << r.from, i >>])
              [] r.op = "nlook" ->
                   IF MatchK(<< r.r >>, s, i, caps).ok THEN Fail
                   ELSE MatchK(rest, s, i, caps)
              [] r.op = "wordb" ->
                   IF IsWordAt(s, i - 1) # IsWordAt(s, i)
                   THEN MatchK(rest, s, i, caps) ELSE Fail
              [] r.op = "eoi" ->
                   IF i = Len(s) + 1 THEN MatchK(rest, s, i, caps) ELSE Fail

\* the leftmost successful attempt among the attempts at each start position
FirstMatch(attempts) ==
    LET starts == {i \in DOMAIN attempts : attempts[i].ok}
    IN IF starts = {} THEN Fail
       ELSE [ok |-> TRUE, index |-> SetMin(starts), end |-> attempts[SetMin(starts)].end,
             caps |-> attempts[SetMin(starts)].caps]

\* regex.exec(s) with lastIndex = from - 1: the leftmost match at or after from
Exec(re, s, from) ==
    FirstMatch([i \in from..(Len(s) + 1) |-> MatchK(<< re >>, s, i, NoCaps)])

\* s.match(re) for a regex without the g flag
Match(s, re) == Exec(re, s, 1)

\* capture group k of a successful match ("" stands for undefined too: every
\* use in the source tests the group for truthiness or trims it)
Group(s, m, k) == IF m.caps[k] = << 0, 0 >> THEN "" ELSE Substring(s, m.caps[k][1], m.caps[k][2])

HasGroup(m, k) == m.caps[k] # << 0, 0 >>

(***************************************************************************)
(* Optional values: initValue is a string or undefined.                    *)
(***************************************************************************)
None == [some |-> FALSE]

Some(v) == [some |-> TRUE, v |-> v]

\* !initValue: undefined and the empty string are both falsy
Falsy(iv) == ~iv.some \/ iv.v = ""

Max(a, b) == IF a >= b THEN a ELSE b

(***************************************************************************)
(* The size estimator.                                                     *)
(***************************************************************************)
StringFromRe == Cat(<< Lit("String::from("), Star(Sp), Lit("\""), Grp(1, Star(NSet({"\""}))),
                       Lit("\""), Star(Sp), Lit(")") >>)

ToStringRe == Cat(<< Lit("\""), Grp(1, Star(NSet({"\""}))), Lit("\".to_string()") >>)

StringCapRe == Cat(<< Lit("String::with_capacity("), Star(Sp), Grp(1, Plus(Set(Digit))),
                      Star(Sp), Lit(")") >>)

\* estimateStringHeap's chain with the whole match measured in place of the
\* quoted text
StringHeapFromM(iv, fromMatch, toStrMatch, capMatch) ==
    IF Includes(iv, "String::new()") THEN 0
    ELSE IF fromMatch.ok THEN Len(Substring(iv, fromMatch.index, fromMatch.end))
    ELSE IF toStrMatch.ok THEN Len(Group(iv, toStrMatch, 1))
    ELSE IF capMatch.ok THEN ParseInt(Group(iv, capMatch, 1))
    ELSE IF Includes(iv, "format!") THEN 128
    ELSE IF Includes(iv, ".to_owned()") \/ Includes(iv, ".clone()") THEN 64
    ELSE 64

\* the chain of returns of estimateStringHeap, given the three matches
StringHeapFrom(iv, fromMatch, toStrMatch, capMatch) ==
    IF Includes(iv, "String::new()") THEN 0
    ELSE IF fromMatch.ok THEN Len(Group(iv, fromMatch, 1))
    ELSE IF toStrMatch.ok THEN Len(Group(iv, toStrMatch, 1))
    ELSE IF capMatch.ok THEN ParseInt(Group(iv, capMatch, 1))
    ELSE IF Includes(iv, "format!") THEN 128
    ELSE IF Includes(iv, ".to_owned()") \/ Includes(iv, ".clone()") THEN 64
    ELSE 64

estimateStringHeap(initValue) ==
    IF Falsy(initValue) THEN 64
    ELSE StringHeapFrom(initValue.v, Match(initValue.v, StringFromRe),
                        Match(initValue.v, ToStringRe), Match(initValue.v, StringCapRe))

guessVecElementSize(type) ==
    IF Includes(type, "Vec<u8>") \/ Includes(type, "Vec<i8>") \/ Includes(type, "Vec<bool>") THEN 1
    ELSE IF Includes(type, "Vec<u16>") \/ Includes(type, "Vec<i16>") THEN 2
    ELSE IF Includes(type, "Vec<u32>") \/ Includes(type, "Vec<i32>") \/ Includes(type, "Vec<f32>") THEN 4
    ELSE IF Includes(type, "Vec<u64>") \/ Includes(type, "Vec<i64>") \/ Includes(type, "Vec<f64>") THEN 8
    ELSE IF Includes(type, "Vec<String>") THEN 24
    ELSE 8

VecMacroRe == Cat(<< Lit("vec!["), Grp(1, Star(NSet({"]"}))), Lit("]") >>)

RepeatRe == Cat(<< Grp(1, Plus(Dot)), Lit(";"), Star(Sp), Grp(2, Plus(Set(Digit))) >>)

VecCapRe == Cat(<< Lit("Vec::with_capacity("), Star(Sp), Grp(1, Plus(Set(Digit))),
                   Star(Sp), Lit(")") >>)

NonBlank(str) == Trim(str) # ""

\* the vec![...] branch of estimateVecHeap, given the macro's trimmed content
VecMacroHeap(content, repeatMatch, elemSize) ==
    IF content = "" THEN 0
    ELSE IF repeatMatch.ok THEN ParseInt(Group(content, repeatMatch, 2)) * elemSize
    ELSE Len(SelectSeq(Split(content, ","), NonBlank)) * elemSize

VecMacroContent(content, elemSize) == VecMacroHeap(content, Match(content, RepeatRe), elemSize)

\* the chain of returns of estimateVecHeap, given the two matches
VecHeapFrom(iv, elemSize, vecMacroMatch, capMatch) ==
    IF Includes(iv, "Vec::new()") THEN 0
    ELSE IF vecMacroMatch.ok THEN VecMacroContent(Trim(Group(iv, vecMacroMatch, 1)), elemSize)
    ELSE IF capMatch.ok THEN ParseInt(Group(iv, capMatch, 1)) * elemSize
    ELSE elemSize * 16

estimateVecHeap(type, initValue) ==
    IF Falsy(initValue) THEN guessVecElementSize(type) * 16
    ELSE VecHeapFrom(initValue.v, guessVecElementSize(type),
                     Match(initValue.v, VecMacroRe), Match(initValue.v, VecCapRe))

CollCapRe == Cat(<< Lit("with_capacity("), Star(Sp), Grp(1, Plus(Set(Digit))), Star(Sp), Lit(")") >>)

CollectionHeapFrom(iv, capMatch) ==
    IF Includes(iv, "::new()") THEN 0
    ELSE IF capMatch.ok THEN ParseInt(Group(iv, capMatch, 1)) * 64
    ELSE 0

estimateCollectionHeap(initValue) ==
    IF Falsy(initValue) THEN 0
    ELSE CollectionHeapFrom(initValue.v, Match(initValue.v, CollCapRe))

ByteArrayRe == Cat(<< Lit("[u8;"), Star(Sp), Grp(1, Plus(Set(Digit))), Lit("]") >>)

SH(st, hp) == [stack |-> st, heap |-> hp]

\* PrimitiveSize with 1-byte rules that test for the digit alone, so that they
\* shadow the 16-byte rules
PrimitiveSizeM(type) ==
    IF Includes(type, "i") /\ Includes(type, "8") THEN Some(SH(1, 0))
    ELSE IF Includes(type, "u") /\ Includes(type, "8") THEN Some(SH(1, 0))
    ELSE IF Includes(type, "i16") THEN Some(SH(2, 0))
    ELSE IF Includes(type, "u16") THEN Some(SH(2, 0))
    ELSE IF Includes(type, "i32") THEN Some(SH(4, 0))
    ELSE IF Includes(type, "u32") THEN Some(SH(4, 0))
    ELSE IF Includes(type, "f32") THEN Some(SH(4, 0))
    ELSE IF Includes(type, "i64") THEN Some(SH(8, 0))
    ELSE IF Includes(type, "u64") THEN Some(SH(8, 0))
    ELSE IF Includes(type, "f64") THEN Some(SH(8, 0))
    ELSE IF Includes(type, "i128") THEN Some(SH(16, 0))
    ELSE IF Includes(type, "u128") THEN Some(SH(16, 0))
    ELSE IF Includes(type, "isize") THEN Some(SH(8, 0))
    ELSE IF Includes(type, "usize") THEN Some(SH(8, 0))
    ELSE IF Includes(type, "bool") THEN Some(SH(1, 0))
    ELSE IF Includes(type, "char") THEN Some(SH(4, 0))
    ELSE None

\* the primitive rows of the table, in the order the source tests them
PrimitiveSize(type) ==
    IF Includes(type, "i8") /\ ~Includes(type, "i128") THEN Some(SH(1, 0))
    ELSE IF Includes(type, "u8") /\ ~Includes(type, "u128") THEN Some(SH(1, 0))
    ELSE IF Includes(type, "i16") THEN Some(SH(2, 0))
    ELSE IF Includes(type, "u16") THEN Some(SH(2, 0))
    ELSE IF Includes(type, "i32") THEN Some(SH(4, 0))
    ELSE IF Includes(type, "u32") THEN Some(SH(4, 0))
    ELSE IF Includes(type, "f32") THEN Some(SH(4, 0))
    ELSE IF Includes(type, "i64") THEN Some(SH(8, 0))
    ELSE IF Includes(type, "u64") THEN Some(SH(8, 0))
    ELSE IF Includes(type, "f64") THEN Some(SH(8, 0))
    ELSE IF Includes(type, "i128") THEN Some(SH(16, 0))
    ELSE IF Includes(type, "u128") THEN Some(SH(16, 0))
    ELSE IF Includes(type, "isize") THEN Some(SH(8, 0))
    ELSE IF Includes(type, "usize") THEN Some(SH(8, 0))
    ELSE IF Includes(type, "bool") THEN Some(SH(1, 0))
    ELSE IF Includes(type, "char") THEN Some(SH(4, 0))
    ELSE None

\* the [u8; N] row, given the match of the array pattern
ByteArraySize(type, match) ==
    IF match.ok THEN SH(ParseInt(Group(type, match, 1)), 0) ELSE SH(24, 0)

\* the rows of the table below the primitives
CompoundSize(type, initValue) ==
    IF Includes(type, "&str") \/ Includes(type, "&[u8]") THEN SH(16, 0)
    ELSE IF Includes(type, "&") THEN SH(8, 0)
    ELSE IF Includes(type, "String") THEN SH(24, estimateStringHeap(initValue))
    ELSE IF Includes(type, "Vec") THEN SH(24, estimateVecHeap(type, initValue))
    ELSE IF Includes(type, "HashMap") \/ Includes(type, "BTreeMap")
         THEN SH(48, estimateCollectionHeap(initValue))
    ELSE IF Includes(type, "HashSet") \/ Includes(type, "BTreeSet")
         THEN SH(32, estimateCollectionHeap(initValue))
    ELSE IF Includes(type, "Box") THEN SH(8, 8)
    ELSE IF Includes(type, "Arc") \/ Includes(type, "Rc") THEN SH(8, 24)
    ELSE IF Includes(type, "Option") THEN SH(24, 0)
    ELSE IF Includes(type, "Result") THEN SH(24, 0)
    ELSE IF Includes(type, "[u8;") THEN ByteArraySize(type, Match(type, ByteArrayRe))
    ELSE SH(8, 0)

\* a primitive row wins over every other row
FirstRow(prim, type, initValue) == IF prim.some THEN prim.v ELSE CompoundSize(type, initValue)

estimateTypeSize(type, initValue) == FirstRow(PrimitiveSize(type), type, initValue)

(***************************************************************************)
(* Aggregate bodies: struct, union and enum.                               *)
(***************************************************************************)
BraceRe == Cat(<< Lit("{"), Grp(1, Star(NSet({"}"}))), Lit("}") >>)

FieldRe == Cat(<< Opt(Cat(<< Lit("pub"), Plus(Sp) >>)), Ident, Star(Sp), Lit(":"), Star(Sp),
                  Grp(1, Plus(Dot)) >>)

\* AddField with the stack assigned from the field in place of added to
AddFieldM(acc, est) == SH(est.stack, acc.heap + est.heap)

\* totalStack += estimated.stack; totalHeap += estimated.heap
AddField(acc, est) == SH(acc.stack + est.stack, acc.heap + est.heap)

\* one iteration of the loop over the fields: a field that does not look like
\* name: type adds nothing
FieldStep(acc, field, fieldMatch) ==
    IF fieldMatch.ok
    THEN AddField(acc, estimateTypeSize(Trim(Group(field, fieldMatch, 1)), None))
    ELSE acc

FieldOf(acc, field) == FieldStep(acc, field, Match(field, FieldRe))

RECURSIVE SumFields(_, _)
SumFields(fields, acc) ==
    IF fields = << >> THEN acc
    ELSE SumFields(Tail(fields), FieldOf(acc, Trim(Head(fields))))

\* return { stack: totalStack || 8, heap: totalHeap }
StackFloor(sum) == SH(IF sum.stack # 0 THEN sum.stack ELSE 8, sum.heap)

StructSizeFrom(afterStruct, braceMatch) ==
    IF ~braceMatch.ok THEN SH(0, 0)
    ELSE StackFloor(SumFields(SelectSeq(Split(Group(afterStruct, braceMatch, 1), ","), NonBlank),
                              SH(0, 0)))

AfterIndex(content, startIndex) == SubSeq(content, startIndex, Len(content))

BodyOf(after) == Match(after, BraceRe)

estimateStructSize(content, startIndex) ==
    StructSizeFrom(AfterIndex(content, startIndex), BodyOf(AfterIndex(content, startIndex)))

TupleRe == Cat(<< Lit("("), Grp(1, Plus(NSet({")"}))), Lit(")") >>)

RECURSIVE SumStacks(_)
SumStacks(types) ==
    IF types = << >> THEN 0
    ELSE estimateTypeSize(Trim(Head(types)), None).stack + SumStacks(Tail(types))

\* the stack size of one variant: the sum over its tuple payload, 0 without one
VariantSize(variant, tupleMatch) ==
    IF tupleMatch.ok THEN SumStacks(Split(Group(variant, tupleMatch, 1), ",")) ELSE 0

VariantOf(variant) == VariantSize(variant, Match(variant, TupleRe))

RECURSIVE MaxVariant(_, _)
MaxVariant(variants, maxSize) ==
    IF variants = << >> THEN maxSize
    ELSE MaxVariant(Tail(variants), Max(maxSize, VariantOf(Head(variants))))

EnumSizeFrom(afterEnum, braceMatch) ==
    IF ~braceMatch.ok THEN 8
    ELSE 8 + MaxVariant(SelectSeq(Split(Group(afterEnum, braceMatch, 1), ","), NonBlank), 0)

estimateEnumSize(content, startIndex) ==
    EnumSizeFrom(AfterIndex(content, startIndex), BodyOf(AfterIndex(content, startIndex)))

(***************************************************************************)
(* The file system: tree maps each existing path to a directory (with its  *)
(* entry names in listing order) or a file (with its text); reading a path *)
(* of unreadable throws.                                                   *)
(***************************************************************************)
DirNode(entries) == [dir |-> TRUE, entries |-> entries]

FileNode(content) == [dir |-> FALSE, content |-> content]

PathJoin(dir, name) == dir \o "/" \o name

\* path.relative(root, file) for a file beneath root
PathRelative(root, file) == SubSeq(file, Len(root) + 2, Len(file))

ExcludedDirs == {"target", ".cargo", "node_modules", ".git"}

\* Excluded with no name excluded
ExcludedNone(name) == FALSE

\* Excluded with the names compared by prefix
ExcludedM(name) == \E x \in ExcludedDirs : StartsWith(name, x)

Excluded(name) == name \in ExcludedDirs

\* ListingFails with a failure anywhere failing every listing
ListingFailsM(noRead, dir) == noRead # {}

\* fs.readdirSync(dir) throws
ListingFails(noRead, dir) == dir \in noRead

RECURSIVE findRustFilesSync(_, _, _), WalkEntries(_, _, _, _)
findRustFilesSync(fsTree, noRead, dir) ==
    IF ListingFails(noRead, dir) THEN << >>
    ELSE WalkEntries(fsTree, noRead, dir, fsTree[dir].entries)

WalkEntries(fsTree, noRead, dir, entries) ==
    IF entries = << >> THEN << >>
    ELSE LET name == Head(entries)
             fullPath == PathJoin(dir, name)
             here == IF fsTree[fullPath].dir
                     THEN IF Excluded(name) THEN << >>
                          ELSE findRustFilesSync(fsTree, noRead, fullPath)
                     ELSE IF EndsWith(name, ".rs") THEN << fullPath >> ELSE << >>
         IN here \o WalkEntries(fsTree, noRead, dir, Tail(entries))

(***************************************************************************)
(* The declaration scanner.                                                *)
(***************************************************************************)
PubPrefix == Opt(Cat(<< Lit("pub"),
                        Opt(Cat(<< Star(Sp), Lit("("), Star(NSet({")"})), Lit(")") >>)),
                        Plus(Sp) >>))

Generics == Opt(Cat(<< Lit("<"), Star(NSet({">"})), Lit(">") >>))

TypeChars == Set(Lower \cup Upper \cup Digit \cup WS \cup {"_", ":", "<", ">", "[", "]", ",", "&", "'"})

varRegex == Cat(<< Grp(1, Alt(<< Lit("let"), Lit("const"), Lit("static") >>)), Plus(Sp),
                   Opt(Grp(2, Cat(<< Lit("mut"), Plus(Sp) >>))),
                   NLook(Cat(<< Lit("fn"), WordB >>)),
                   Grp(3, Ident), Star(Sp),
                   Opt(Cat(<< Lit(":"), Star(Sp), Grp(4, Plus(TypeChars)) >>)) >>)

fnRegex == Cat(<< PubPrefix,
                  Opt(Cat(<< Lit("default"), Plus(Sp) >>)),
                  Opt(Cat(<< Lit("async"), Plus(Sp) >>)),
                  Opt(Cat(<< Lit("const"), Plus(Sp) >>)),
                  Opt(Cat(<< Lit("unsafe"), Plus(Sp) >>)),
                  Opt(Cat(<< Lit("extern"), Plus(Sp), Lit("\""), Star(NSet({"\""})), Lit("\""), Plus(Sp) >>)),
                  Lit("fn"), Plus(Sp), Grp(1, Ident), Star(Sp), Generics, Star(Sp),
                  Lit("("), Grp(2, Star(NSet({")"}))), Lit(")"),
                  Opt(Cat(<< Star(Sp), Lit("->"), Star(Sp), Grp(3, Plus(NSet(WS \cup {"{"}))) >>)) >>)

structRegex == Cat(<< PubPrefix, Lit("struct"), Plus(Sp), Grp(1, Ident) >>)

enumRegex == Cat(<< PubPrefix, Lit("enum"), Plus(Sp), Grp(1, Ident) >>)

traitRegex == Cat(<< PubPrefix, Opt(Cat(<< Lit("unsafe"), Plus(Sp) >>)), Lit("trait"), Plus(Sp),
                     Grp(1, Ident) >>)

implRegex == Cat(<< Lit("impl"), Opt(Cat(<< Star(Sp), Lit("<"), Star(NSet({">"})), Lit(">") >>)), Plus(Sp),
                    Opt(Cat(<< Grp(1, Cat(<< IdStart, Star(Set(Lower \cup Upper \cup Digit \cup {"_", ":"})) >>)),
                               Plus(Sp), Lit("for"), Plus(Sp) >>)),
                    Grp(2, Ident) >>)

typeRegex == Cat(<< Opt(Cat(<< Lit("pub"), Plus(Sp) >>)), Lit("type"), Plus(Sp), Grp(1, Ident),
                    Star(Sp), Generics, Star(Sp), Lit("="), Star(Sp), Grp(2, Plus(NSet({";"}))) >>)

modRegex == Cat(<< PubPrefix, Lit("mod"), Plus(Sp), Grp(1, Ident) >>)

unionRegex == Cat(<< PubPrefix, Lit("union"), Plus(Sp), Grp(1, Ident) >>)

macroRegex == Cat(<< Lit("macro_rules!"), Plus(Sp), Grp(1, Ident) >>)

useRegex == Cat(<< PubPrefix, Lit("use"), Plus(Sp), Grp(1, Plus(NSet({";"}))) >>)

externCrateRegex == Cat(<< Lit("extern"), Plus(Sp), Lit("crate"), Plus(Sp), Grp(1, Ident) >>)

externBlockRegex == Cat(<< Lit("extern"), Plus(Sp), Lit("\""), Grp(1, Plus(NSet({"\""}))), Lit("\""),
                           Star(Sp), Lit("{") >>)

InitRe == Cat(<< Lit("="), Star(Sp), Grp(1, LazyPlus(Dot)), Alt(<< Lit(";"), Eoi >>) >>)

ClosureRe == Cat(<< Opt(Cat(<< Lit("move"), Star(Sp) >>)), Lit("|") >>)

\* the successive results of re.exec(content) of a while loop over a g-flag
\* regex: each search resumes at lastIndex, the end of the previous match
RECURSIVE Successive(_, _)
Successive(attempts, from) ==
    LET next == {i \in DOMAIN attempts : i >= from /\ attempts[i].ok}
    IN IF next = {} THEN << >>
       ELSE << [ok |-> TRUE, index |-> SetMin(next), end |-> attempts[SetMin(next)].end,
                caps |-> attempts[SetMin(next)].caps] >>
            \o Successive(attempts, attempts[SetMin(next)].end)

ExecAll(re, content) ==
    Successive([i \in 1..(Len(content) + 1) |-> MatchK(<< re >>, content, i, NoCaps)], 1)

\* content.substring(0, match.index).split('\n').length
LineNumber(content, index) == Len(Split(SubSeq(content, 1, index - 1), "\n"))

LineContent(content, index) == Split(content, "\n")[LineNumber(content, index)]

\* IsCommentLine without the trim
IsCommentLineM(lineContent) == StartsWith(lineContent, "//")

\* lineContent.trim().startsWith('//')
IsCommentLine(lineContent) == StartsWith(Trim(lineContent), "//")

Decl(name, declaration, type, stackSize, heapSize, size, file, line) ==
    [name |-> name, declaration |-> declaration, type |-> type, stackSize |-> stackSize,
     heapSize |-> heapSize, size |-> size, file |-> file, line |-> line]

EmptyResult == [totalSize |-> 0, variables |-> << >>, typeCounts |-> << >>]

\* addToResults with = in place of += at line 401
addToResultsM(acc, item) ==
    LET typeKey == item.declaration \o ": " \o item.type
        old == IF typeKey \in DOMAIN acc.typeCounts THEN acc.typeCounts[typeKey]
               ELSE [count |-> 0, totalSize |-> 0]
    IN [acc EXCEPT !.typeCounts = [k \in DOMAIN acc.typeCounts \cup {typeKey} |->
                                     IF k = typeKey
                                     THEN [count |-> old.count + 1, totalSize |-> item.size]
                                     ELSE acc.typeCounts[k]],
                   !.variables = Append(acc.variables, item)]

addToResults(acc, item) ==
    LET typeKey == item.declaration \o ": " \o item.type
        old == IF typeKey \in DOMAIN acc.typeCounts THEN acc.typeCounts[typeKey]
               ELSE [count |-> 0, totalSize |-> 0]
    IN [acc EXCEPT !.typeCounts = [k \in DOMAIN acc.typeCounts \cup {typeKey} |->
                                     IF k = typeKey
                                     THEN [count |-> old.count + 1, totalSize |-> old.totalSize + item.size]
                                     ELSE acc.typeCounts[k]],
                   !.variables = Append(acc.variables, item)]

\* the additions of the while loops, in order; an entry holds the item and
\* whether its loop also adds the item's size to totalSize
AddTotal(a, entry) ==
    IF entry.addsTotal THEN [a EXCEPT !.totalSize = a.totalSize + entry.item.size] ELSE a

AddOne(acc, entry) == AddTotal(addToResults(acc, entry.item), entry)

RECURSIVE AddAll(_, _)
AddAll(acc, entries) ==
    IF entries = << >> THEN acc
    ELSE AddAll(AddOne(acc, Head(entries)), Tail(entries))

\* match[4]?.trim() || 'inferido', match[3]?.trim() || '()'
TypeOr(type, default) == IF type # "" THEN type ELSE default

InitValueFrom(lineContent, initMatch) ==
    IF initMatch.ok THEN Some(Trim(Group(lineContent, initMatch, 1))) ELSE None

InitValueOf(lineContent) == InitValueFrom(lineContent, Match(lineContent, InitRe))

IsClosure(initValue) == ~Falsy(initValue) /\ MatchK(<< ClosureRe >>, initValue.v, 1, NoCaps).ok

FullDeclaration(content, m, initValue) ==
    IF IsClosure(initValue) THEN "closure"
    ELSE IF HasGroup(m, 2) THEN Group(content, m, 1) \o " mut" ELSE Group(content, m, 1)

\* the binding item with size: estimated.stack at line 175
VarDeclM(content, file, m, varType, estimated, fullDeclaration) ==
    Decl(Group(content, m, 3), fullDeclaration, varType, estimated.stack, estimated.heap,
         estimated.stack, file, LineNumber(content, m.index))

VarDecl(content, file, m, varType, estimated, fullDeclaration) ==
    Decl(Group(content, m, 3), fullDeclaration, varType, estimated.stack, estimated.heap,
         estimated.stack + estimated.heap, file, LineNumber(content, m.index))

VarOf(content, file, m, varType, initValue) ==
    VarDecl(content, file, m, varType, estimateTypeSize(varType, initValue),
            FullDeclaration(content, m, initValue))

varItem(content, file, m) ==
    VarOf(content, file, m, TypeOr(Trim(Group(content, m, 4)), "inferido"),
          InitValueOf(LineContent(content, m.index)))

CountsAsParam(p) == Trim(p) # "" /\ ~StartsWith(Trim(p), "self")

ParamCount(params) ==
    IF params # "" THEN Len(SelectSeq(Split(params, ","), CountsAsParam)) ELSE 0

FnStack(paramCount, returnType) == 8 + (paramCount * 8) + estimateTypeSize(returnType, None).stack

FnDecl(content, file, m, paramCount, returnType, fnStack) ==
    Decl(Group(content, m, 1), "fn", "(" \o ToString(paramCount) \o " params) -> " \o returnType,
         fnStack, 0, fnStack, file, LineNumber(content, m.index))

FnOf(content, file, m, paramCount, returnType) ==
    FnDecl(content, file, m, paramCount, returnType, FnStack(paramCount, returnType))

fnItem(content, file, m) ==
    FnOf(content, file, m, ParamCount(Group(content, m, 2)),
         TypeOr(Trim(Group(content, m, 3)), "()"))

StructDecl(content, file, m, kind, structSize) ==
    Decl(Group(content, m, 1), kind, kind, structSize.stack, structSize.heap,
         structSize.stack + structSize.heap, file, LineNumber(content, m.index))

structItem(content, file, m, kind) ==
    StructDecl(content, file, m, kind, estimateStructSize(content, m.index))

EnumDecl(content, file, m, enumSize) ==
    Decl(Group(content, m, 1), "enum", "enum", enumSize, 0, enumSize, file,
         LineNumber(content, m.index))

enumItem(content, file, m) == EnumDecl(content, file, m, estimateEnumSize(content, m.index))

implItem(content, file, m) ==
    LET traitImpl == Group(content, m, 1)
        targetName == Group(content, m, 2)
        implLabel == IF traitImpl # "" THEN "impl " \o traitImpl \o " for " \o targetName
                     ELSE "impl " \o targetName
    IN Decl(targetName, "impl", implLabel, 0, 0, 0, file, LineNumber(content, m.index))

TypeDecl(content, file, m, aliasOf, estimated) ==
    Decl(Group(content, m, 1), "type", aliasOf, estimated.stack, estimated.heap,
         estimated.stack + estimated.heap, file, LineNumber(content, m.index))

TypeOf(content, file, m, aliasOf) ==
    TypeDecl(content, file, m, aliasOf, estimateTypeSize(aliasOf, None))

typeItem(content, file, m) == TypeOf(content, file, m, Trim(Group(content, m, 2)))

\* str.replace(/[{}\s]/g, '')
RECURSIVE StripBraces(_)
StripBraces(str) ==
    LET bad == {i \in 1..Len(str) : Ch(str, i) \in WS \cup {"{", "}"}}
    IN IF bad = {} THEN str
       ELSE SubSeq(str, 1, SetMin(bad) - 1) \o StripBraces(SubSeq(str, SetMin(bad) + 1, Len(str)))

UseDecl(content, file, m, usePath, last) ==
    Decl(IF last # "" THEN last ELSE usePath, "use", usePath, 0, 0, 0, file,
         LineNumber(content, m.index))

\* usePath.split('::').pop()?.replace(/[{}\s]/g, '')
LastSegment(segments) == StripBraces(segments[Len(segments)])

UseOf(content, file, m, usePath) ==
    UseDecl(content, file, m, usePath, LastSegment(Split(usePath, "::")))

useItem(content, file, m) == UseOf(content, file, m, Trim(Group(content, m, 1)))

fixedItem(content, file, m, declaration, type, size) ==
    Decl(Group(content, m, 1), declaration, type, size, 0, size, file, LineNumber(content, m.index))

externItem(content, file, m) ==
    LET abi == Group(content, m, 1)
    IN Decl("extern \"" \o abi \o "\"", "extern", "ABI: " \o abi, 0, 0, 0, file,
            LineNumber(content, m.index))

\* the item the loop of the given pass builds from a match
MakeItem(pass, content, file, m) ==
    CASE pass = 1 -> varItem(content, file, m)
      [] pass = 2 -> fnItem(content, file, m)
      [] pass = 3 -> structItem(content, file, m, "struct")
      [] pass = 4 -> enumItem(content, file, m)
      [] pass = 5 -> fixedItem(content, file, m, "trait", "trait (vtable)", 16)
      [] pass = 6 -> implItem(content, file, m)
      [] pass = 7 -> typeItem(content, file, m)
      [] pass = 8 -> fixedItem(content, file, m, "mod", "module", 0)
      [] pass = 9 -> structItem(content, file, m, "union")
      [] pass = 10 -> fixedItem(content, file, m, "macro", "macro_rules!", 0)
      [] pass = 11 -> useItem(content, file, m)
      [] pass = 12 -> fixedItem(content, file, m, "extern crate", "crate", 0)
      [] pass = 13 -> externItem(content, file, m)

PassRegex == << varRegex, fnRegex, structRegex, enumRegex, traitRegex, implRegex, typeRegex,
                modRegex, unionRegex, macroRegex, useRegex, externCrateRegex, externBlockRegex >>

\* the passes with totalSize += ..., the union loop (line 322) left out
AddsTotalM == {1, 2, 3, 4, 5, 7}

\* the passes whose loop ends with totalSize += ...
AddsTotal == {1, 2, 3, 4, 5, 7, 9}

\* one while loop of the scan: every match that is not on a comment line is
\* turned into an item to add
Kept(content, all) ==
    LET NotComment(m) == ~IsCommentLine(LineContent(content, m.index))
    IN SelectSeq(all, NotComment)

Items(pass, content, file, kept) ==
    [j \in 1..Len(kept) |->
        [item |-> MakeItem(pass, content, file, kept[j]), addsTotal |-> pass \in AddsTotal]]

Pass(pass, content, file) ==
    Items(pass, content, file, Kept(content, ExecAll(PassRegex[pass], content)))

\* the body of the loop over rustFiles for one file that was read: the 13
\* passes in order
RECURSIVE Passes(_, _, _)
Passes(pass, content, file) ==
    IF pass > Len(PassRegex) THEN << >>
    ELSE Pass(pass, content, file) \o Passes(pass + 1, content, file)

scanFile(content, file) == Passes(1, content, file)

\* the file loop with the declarations of lines 131-133 moved into its body:
\* what the last file added is all that is left
FileLoopM(fsTree, workspaceRoot, rustFiles) ==
    IF rustFiles = << >> THEN << >>
    ELSE scanFile(fsTree[rustFiles[Len(rustFiles)]].content,
                  PathRelative(workspaceRoot, rustFiles[Len(rustFiles)]))

\* for (const file of rustFiles), every file read
RECURSIVE FileLoop(_, _, _)
FileLoop(fsTree, workspaceRoot, rustFiles) ==
    IF rustFiles = << >> THEN << >>
    ELSE scanFile(fsTree[Head(rustFiles)].content, PathRelative(workspaceRoot, Head(rustFiles)))
         \o FileLoop(fsTree, workspaceRoot, Tail(rustFiles))

\* readFileSync throws on an unreadable file
Throws(noRead, rustFiles) == \E j \in 1..Len(rustFiles) : rustFiles[j] \in noRead

\* the try block and its catch, which returns the empty result whatever the
\* loop had added before the throw
TryScan(fsTree, noRead, workspaceRoot, rustFiles) ==
    IF Throws(noRead, rustFiles) THEN EmptyResult
    ELSE AddAll(EmptyResult, FileLoop(fsTree, workspaceRoot, rustFiles))

analyzeRustVariables(fsTree, noRead, workspaceRoot) ==
    TryScan(fsTree, noRead, workspaceRoot, findRustFilesSync(fsTree, noRead, workspaceRoot))

(***************************************************************************)
(* The webview script: the stored list and its filter.                     *)
(***************************************************************************)
FilterBy(variables, searchLower) ==
    LET Shown(variable) ==
            \/ Includes(toLowerCase(variable.name), searchLower)
            \/ Includes(toLowerCase(variable.type), searchLower)
            \/ Includes(toLowerCase(variable.file), searchLower)
            \/ Includes(toLowerCase(variable.declaration), searchLower)
    IN SelectSeq(variables, Shown)

\* filterVariables with the rows filtered out of the stored list
filterVariablesM(stored, term) == FilterBy(stored, "")

filterVariables(stored, term) == FilterBy(stored, toLowerCase(term))

(***************************************************************************)
(* The sizes shown by the view.                                            *)
(***************************************************************************)
TwoDigits(n) == IF n < 10 THEN "0" \o ToString(n) ELSE ToString(n)

\* (hundredths / 100).toFixed(2)
Fixed2(hundredths) == ToString(hundredths \div 100) \o "." \o TwoDigits(hundredths % 100)

\* a / b in hundredths, rounded to the nearest
Hundredths(a, b) == (200 * a + b) \div (2 * b)

formatMemorySize(kb) ==
    IF kb < 1024 THEN Fixed2(100 * kb) \o " KB"
    ELSE IF kb < 1024 * 1024 THEN Fixed2(Hundredths(kb, 1024)) \o " MB"
    ELSE Fixed2(Hundredths(kb, 1024 * 1024)) \o " GB"

\* Math.ceil(a / b)
Ceil(a, b) == (a + b - 1) \div b

\* projectRSS + Math.floor(totalSize / 1024)
projectTotalMemoryM(projectRSS, totalSize) == projectRSS + (totalSize \div 1024)

projectTotalMemory(projectRSS, totalSize) == projectRSS + Ceil(totalSize, 1024)

\* Object.entries(typeCounts).map(...): one entry per group
TypeCountEntries(typeCounts) ==
    {[type |-> k, count |-> typeCounts[k].count, totalSize |-> typeCounts[k].totalSize] :
        k \in DOMAIN typeCounts}

(***************************************************************************)
(* The colour of a usage bar.                                              *)
(***************************************************************************)
Green == "var(--vscode-terminal-ansiGreen)"

Yellow == "var(--vscode-terminal-ansiYellow)"

Red == "var(--vscode-terminal-ansiRed)"

getUsageColor(p) ==
    IF p < 50 THEN Green
    ELSE IF p < 80 THEN Yellow
    ELSE Red

(***************************************************************************)
(* State.                                                                  *)
(*   typeLabel, initValue, estimate : one call of estimateTypeSize         *)
(*   source, structSize, enumSize   : one aggregate body and its estimates *)
(*   tree, unreadable               : the workspace on disk                *)
(*   found, result                  : what findRustFilesSync and           *)
(*                                    analyzeRustVariables returned        *)
(*   view                           : whether this._view is set            *)
(*   runs                           : the calls of updateMemoryInfo, in    *)
(*                                    the order they were triggered        *)
(*   posted                         : the updateMemory messages posted to  *)
(*                                    the webview, in order                *)
(*   delivered                      : how many of them the webview handled *)
(*   percentage, color              : one call of getUsageColor            *)
(*   currentVariables, searchTerm,  : the webview script's list, the value *)
(*   rows                             of its search box and the rows of    *)
(*                                    its table (None: the placeholder)    *)
(*   lastReceived                   : the variables of the last message    *)
(*                                    the webview received                 *)
(*   disposables                    : this._disposables                    *)
(*   subscriptions                  : the event subscriptions still live   *)
(*   timers                         : the live setInterval timers          *)
(*   disposed                       : dispose() has returned and the view  *)
(*                                    has not been resolved since          *)
(*   starts                         : per call of updateMemoryInfo that    *)
(*                                    passed its guard, what called it and *)
(*                                    the value of disposed at the call    *)
(***************************************************************************)
VARIABLES typeLabel, initValue, estimate, source, structSize, enumSize,
          tree, unreadable, found, result, view, runs, posted, delivered,
          percentage, color, currentVariables, searchTerm, rows, lastReceived,
          disposables, subscriptions, timers, disposed, starts

estVars == << typeLabel, initValue, estimate >>

aggVars == << source, structSize, enumSize >>

fsVars == << tree, unreadable, found, result >>

viewVars == << view, runs, posted, delivered >>

colorVars == << percentage, color >>

webVars == << currentVariables, searchTerm, rows, lastReceived >>

lifeVars == << disposables, subscriptions, timers, disposed, starts >>

auxVars == << colorVars, webVars, lifeVars >>

vars == << typeLabel, initValue, estimate, source, structSize, enumSize,
           tree, unreadable, found, result, view, runs, posted, delivered,
           percentage, color, currentVariables, searchTerm, rows, lastReceived,
           disposables, subscriptions, timers, disposed, starts >>

EstIdle == typeLabel = "" /\ initValue = None /\ estimate = None

AggIdle == source = "" /\ structSize = None /\ enumSize = None

Root == "/w"

EmptyTree == [p \in {Root} |-> DirNode(<< >>)]

\* a workspace whose one file a.rs holds text
Project(text) ==
    [p \in {Root, "/w/a.rs"} |-> IF p = Root THEN DirNode(<< "a.rs" >>) ELSE FileNode(text)]

FsIdle == tree = EmptyTree /\ unreadable = {} /\ found = None /\ result = None

ViewIdle == view = FALSE /\ runs = << >> /\ posted = << >> /\ delivered = 0

ColorIdle == percentage = 0 /\ color = None

WebIdle == currentVariables = << >> /\ searchTerm = "" /\ rows = None /\ lastReceived = << >>

LifeIdle ==
    /\ disposables = << >>
    /\ subscriptions = {}
    /\ timers = 0
    /\ disposed = FALSE
    /\ starts = << >>

AuxIdle == ColorIdle /\ WebIdle /\ LifeIdle

(***************************************************************************)
(* Inputs of the estimator.                                                *)
(***************************************************************************)
MaxCap == 3

MaxTextLen == 2

Caps == 0..MaxCap \cup {100}

Alphabet == {"a", " "}

RECURSIVE StringsUpTo(_)
StringsUpTo(n) ==
    IF n = 0 THEN {""}
    ELSE LET shorter == StringsUpTo(n - 1)
         IN shorter \cup {str \o c : str \in shorter, c \in Alphabet}

Texts == StringsUpTo(MaxTextLen) \cup {"hello"}

Primitives == {"i8", "u8", "bool", "i16", "u16", "i32", "u32", "f32", "char",
               "i64", "u64", "f64", "isize", "usize", "i128", "u128"}

ElemTypes == {"u8", "i8", "bool", "u16", "i16", "u32", "i32", "f32", "u64", "i64", "f64",
              "String", "Foo"}

VecOf(t) == "Vec<" \o t \o ">"

ByteArrayOf(n) == "[u8; " \o ToString(n) \o "]"

StringFromInit(t) == "String::from(\"" \o t \o "\")"

ToStringInit(t) == "\"" \o t \o "\".to_string()"

StringCapInit(n) == "String::with_capacity(" \o ToString(n) \o ")"

VecCapInit(n) == "Vec::with_capacity(" \o ToString(n) \o ")"

MapCapInit(n) == "HashMap::with_capacity(" \o ToString(n) \o ")"

TypeLabels ==
    Primitives \cup {VecOf(t) : t \in ElemTypes} \cup {ByteArrayOf(n) : n \in Caps}
    \cup {"String", "&str", "&[u8]", "&i32", "&Foo", "&mut Foo", "Option<i32>", "Option<Foo>",
          "Result<Foo, Bar>", "HashMap<String, u64>", "HashMap<K, V>", "BTreeMap<K, V>",
          "HashSet<K>", "BTreeSet<K>", "Box<Foo>", "Rc<Foo>", "Arc<Foo>", "Foo", "inferido",
          "[u8; 4]", "[u8; N]", "[Foo; 4]"}

InitValues ==
    {None}
    \cup {Some(StringFromInit(t)) : t \in Texts} \cup {Some(ToStringInit(t)) : t \in Texts}
    \cup {Some(StringCapInit(n)) : n \in Caps} \cup {Some(VecCapInit(n)) : n \in Caps}
    \cup {Some(MapCapInit(n)) : n \in Caps}
    \cup {Some(i) : i \in {"String::new()", "Vec::new()", "HashMap::new()", "vec![]", "vec![1, 2, 3]",
                           "vec![0; 4]", "format!(\"a\")", "s.clone()", "compute()",
                           "String::with_capacity(-5)", "Vec::with_capacity(n)"}}

InitEst ==
    /\ typeLabel \in TypeLabels
    /\ initValue \in InitValues
    /\ estimate = None
    /\ AggIdle /\ FsIdle /\ ViewIdle /\ AuxIdle

\* estimateTypeSize(typeLabel, initValue) returns
Estimate ==
    /\ estimate = None
    /\ estimate' = Some(estimateTypeSize(typeLabel, initValue))
    /\ UNCHANGED << typeLabel, initValue, aggVars, fsVars, viewVars, auxVars >>

\* the initializers written into a scanned binding: one of each form
ScannedInits ==
    {None, Some(StringFromInit("hello")), Some(ToStringInit("a ")), Some(StringCapInit(100)),
     Some(VecCapInit(MaxCap)), Some(MapCapInit(MaxCap))}
    \cup {Some(i) : i \in {"String::new()", "vec![1, 2, 3]", "vec![0; 4]", "format!(\"a\")",
                           "compute()"}}

\* the binding whose declared type is type and whose initializer is init
BindingLine(type, init) ==
    "let v: " \o type \o (IF init.some THEN " = " \o init.v \o ";" ELSE ";")

\* analyzeRustVariables returns for a workspace whose one file holds the
\* binding of typeLabel and initValue
ScanBinding ==
    /\ estimate # None
    /\ initValue \in ScannedInits
    /\ result = None
    /\ tree' = Project(BindingLine(typeLabel, initValue))
    /\ result' = Some(analyzeRustVariables(tree', unreadable, Root))
    /\ UNCHANGED << estVars, aggVars, unreadable, found, viewVars, auxVars >>

NextEst == Estimate \/ ScanBinding

SpecEst == InitEst /\ [][NextEst]_vars

(***************************************************************************)
(* C3: for a label Vec<T> and the initializer Vec::with_capacity(n) the    *)
(* estimate is stack 24 and heap n times the element size of T (1 for      *)
(* u8/i8/bool, 2 for u16/i16, 4 for u32/i32/f32, 8 for u64/i64/f64, 24 for *)
(* String, 8 otherwise).                                                   *)
(***************************************************************************)
ElementSize(t) ==
    CASE t \in {"u8", "i8", "bool"} -> 1
      [] t \in {"u16", "i16"} -> 2
      [] t \in {"u32", "i32", "f32"} -> 4
      [] t \in {"u64", "i64", "f64"} -> 8
      [] t = "String" -> 24
      [] OTHER -> 8

C3_VecWithCapacity ==
    \A t \in ElemTypes, n \in Caps :
        (typeLabel = VecOf(t) /\ initValue = Some(VecCapInit(n)) /\ estimate.some)
            => estimate.v = SH(24, n * ElementSize(t))

(***************************************************************************)
(* C5: a label that is exactly a primitive type name gets (width, 0); the  *)
(* 16-byte integers are not classified by the 1-byte rules.                *)
(***************************************************************************)
PrimitiveWidth(t) ==
    CASE t \in {"i8", "u8", "bool"} -> 1
      [] t \in {"i16", "u16"} -> 2
      [] t \in {"i32", "u32", "f32", "char"} -> 4
      [] t \in {"i64", "u64", "f64", "isize", "usize"} -> 8
      [] t \in {"i128", "u128"} -> 16

C5_PrimitiveWidths ==
    (typeLabel \in Primitives /\ estimate.some) => estimate.v = SH(PrimitiveWidth(typeLabel), 0)

C5_Witness == typeLabel = "i128" /\ initValue # None /\ estimate = Some(SH(16, 0))

(***************************************************************************)
(* C6: for the label String the heap is refined from the initializer:      *)
(* String::new() gives (24, 0); String::from("text") and                   *)
(* "text".to_string() give (24, length of text); String::with_capacity(n)  *)
(* gives (24, n).                                                          *)
(***************************************************************************)
C6_StringHeapFromInitializer ==
    (typeLabel = "String" /\ estimate.some /\ initValue.some) =>
        /\ Includes(initValue.v, "String::new()") => estimate.v = SH(24, 0)
        /\ \A t \in Texts :
             initValue.v \in {StringFromInit(t), ToStringInit(t)} => estimate.v = SH(24, Len(t))
        /\ \A n \in Caps : initValue.v = StringCapInit(n) => estimate.v = SH(24, n)

C6_Witness ==
    /\ typeLabel = "String"
    /\ initValue = Some(StringFromInit("hello"))
    /\ estimate = Some(SH(24, 5))

(***************************************************************************)
(* C19: the row of the table is chosen by the outer form of the label, not *)
(* by names inside its type arguments: Option<...> and Result<...> give    *)
(* (24, 0), HashMap and BTreeMap give stack 48, HashSet and BTreeSet give   *)
(* stack 32, &str and &[u8] give (16, 0) and every other &T gives (8, 0).  *)
(***************************************************************************)
OuterIs(type, forms) == \E form \in forms : StartsWith(type, form)

OuterFormRow(type, est) ==
    /\ OuterIs(type, {"Option<", "Result<"}) => est = SH(24, 0)
    /\ OuterIs(type, {"HashMap<", "BTreeMap<"}) => est.stack = 48
    /\ OuterIs(type, {"HashSet<", "BTreeSet<"}) => est.stack = 32
    /\ type \in {"&str", "&[u8]"} => est = SH(16, 0)
    /\ (OuterIs(type, {"&"}) /\ type \notin {"&str", "&[u8]"}) => est = SH(8, 0)

C19_OuterFormDecides == estimate.some => OuterFormRow(typeLabel, estimate.v)

(***************************************************************************)
(* C20: for the label [u8; N] with a literal N >= 0 the estimate is stack  *)
(* N and heap 0.                                                           *)
(***************************************************************************)
C20_ByteArrayLength ==
    \A n \in Caps : (typeLabel = ByteArrayOf(n) /\ estimate.some) => estimate.v = SH(n, 0)

(***************************************************************************)
(* C23: without an initializer, or with one that is none of the recognized *)
(* constructor forms, the heap is the default of the class: 64 for String, *)
(* element size times 16 for Vec, 0 for maps and sets; for maps and sets   *)
(* with_capacity(n) gives n times 64 and ::new() gives 0.                  *)
(***************************************************************************)
\* the initializers of the model that are no empty constructor, quoted-text
\* constructor, capacity call or bracketed list
Unrecognized(init) == ~init.some \/ init.v \in {"compute()", "format!(\"a\")", "s.clone()"}

IsMapOrSet(type) == OuterIs(type, {"HashMap<", "BTreeMap<", "HashSet<", "BTreeSet<"})

DefaultHeap(type, heap) ==
    /\ type = "String" => heap = 64
    /\ \A t \in ElemTypes : type = VecOf(t) => heap = ElementSize(t) * 16
    /\ IsMapOrSet(type) => heap = 0

CollectionHeap(init, heap) ==
    /\ \A n \in Caps : init = MapCapInit(n) => heap = n * 64
    /\ init = "HashMap::new()" => heap = 0

C23_DefaultHeapOfClass ==
    estimate.some =>
        /\ Unrecognized(initValue) => DefaultHeap(typeLabel, estimate.v.heap)
        /\ (IsMapOrSet(typeLabel) /\ initValue.some) => CollectionHeap(initValue.v, estimate.v.heap)

(***************************************************************************)
(* C24: a negative or non-numeric literal in a capacity call or an array   *)
(* size counts as absent: the estimate is the default of the class (64 of  *)
(* heap for String, element size times 16 for Vec, the fallback of the     *)
(* array row or of the table for [u8; N]) and is never negative.           *)
(***************************************************************************)
MalformedIsDefault(type, init, est) ==
    /\ (type = "String" /\ init = Some("String::with_capacity(-5)")) => est = SH(24, 64)
    /\ \A t \in ElemTypes :
         (type = VecOf(t) /\ init = Some("Vec::with_capacity(n)"))
             => est = SH(24, ElementSize(t) * 16)
    /\ type = "[u8; N]" => est \in {SH(24, 0), SH(8, 0)}

C24_MalformedLiteralIsAbsent ==
    estimate.some =>
        /\ estimate.v.stack >= 0 /\ estimate.v.heap >= 0
        /\ MalformedIsDefault(typeLabel, initValue, estimate.v)

(***************************************************************************)
(* C16: estimateTypeSize returns a stack and a heap that are not negative, *)
(* and every declaration of a scan has stackSize >= 0, heapSize >= 0 and   *)
(* size = stackSize + heapSize.                                            *)
(***************************************************************************)
Additive(d) == d.stackSize >= 0 /\ d.heapSize >= 0 /\ d.size = d.stackSize + d.heapSize

C16_NonNegativeAdditive ==
    /\ estimate.some => (estimate.v.stack >= 0 /\ estimate.v.heap >= 0)
    /\ result.some => \A j \in 1..Len(result.v.variables) : Additive(result.v.variables[j])

C16_Witness ==
    /\ typeLabel = "String"
    /\ initValue = Some(StringFromInit("hello"))
    /\ estimate = Some(SH(24, 5))
    /\ result.some
    /\ Len(result.v.variables) = 1
    /\ result.v.variables[1].stackSize = 24
    /\ result.v.variables[1].heapSize = 5
    /\ result.v.variables[1].size = 29

(***************************************************************************)
(* Inputs of the aggregate estimators: a keyword and name followed by a    *)
(* braced body of comma-separated segments, or by no braces at all.        *)
(***************************************************************************)
MaxSegments == 2

RECURSIVE SeqsUpTo(_, _)
SeqsUpTo(S, n) ==
    IF n = 0 THEN {<< >>}
    ELSE LET shorter == SeqsUpTo(S, n - 1)
         IN shorter \cup {Append(q, x) : q \in shorter, x \in S}

RECURSIVE Join(_, _)
Join(texts, sep) ==
    IF texts = << >> THEN ""
    ELSE IF Len(texts) = 1 THEN texts[1]
    ELSE texts[1] \o sep \o Join(Tail(texts), sep)

\* a segment of a struct body and the TYPE of its [pub] NAME : TYPE form ("" when
\* the segment has no such form)
FieldSegments ==
    { [text |-> " x: i32", type |-> "i32"],
      [text |-> " y: i32 ", type |-> "i32"],
      [text |-> "\n  pub name: String", type |-> "String"],
      [text |-> " m: HashMap<String", type |-> "HashMap<String"],
      [text |-> " u64> ", type |-> ""],
      [text |-> " ", type |-> ""] }

\* a variant of an enum body and its tuple payload types
Variants ==
    { [text |-> " A", payload |-> << >>],
      [text |-> " B(i32, i32) ", payload |-> << "i32", "i32" >>],
      [text |-> " C(u8)", payload |-> << "u8" >>],
      [text |-> " D(u64, u8)", payload |-> << "u64", "u8" >>],
      [text |-> "\n  E(String)", payload |-> << "String" >>],
      [text |-> " F(i64)", payload |-> << "i64" >>] }

Texts1(recs) == [j \in 1..Len(recs) |-> recs[j].text]

StructHeads == {"struct P", "pub union U"}

StructSource(head, segs) == head \o " {" \o Join(Texts1(segs), ",") \o "}"

EnumSource(variants) == "pub(crate) enum E {" \o Join(Texts1(variants), ",") \o "}"

BracelessSources == {"struct P;", "struct P(i32);", "pub union U", "enum E;", "enum E", "enum E }"}

\* bodies that hold a brace pair of their own
NestedSources ==
    {"enum E { A { x: i32 }, B(u64) }", "enum E { B(u64), A { x: i32 } }",
     "struct P { a: u8 } struct Q { b: u64 }"}

AggSources ==
    {StructSource(h, segs) : h \in StructHeads, segs \in SeqsUpTo(FieldSegments, MaxSegments)}
    \cup {EnumSource(vs) : vs \in SeqsUpTo(Variants, MaxSegments)}
    \cup BracelessSources \cup NestedSources

InitAgg ==
    /\ source \in AggSources
    /\ structSize = None
    /\ enumSize = None
    /\ EstIdle /\ FsIdle /\ ViewIdle /\ AuxIdle

\* the struct or union pass found its keyword in source and calls estimateStructSize
StructAt(match) ==
    /\ match.ok
    /\ structSize' = Some(estimateStructSize(source, match.index))

EstimateStruct ==
    /\ structSize = None
    /\ \E re \in {structRegex, unionRegex} : StructAt(Exec(re, source, 1))
    /\ UNCHANGED << source, enumSize, estVars, fsVars, viewVars, auxVars >>

\* the enum pass found its keyword in source and calls estimateEnumSize
EnumAt(match) ==
    /\ match.ok
    /\ enumSize' = Some(estimateEnumSize(source, match.index))

EstimateEnum ==
    /\ enumSize = None
    /\ EnumAt(Exec(enumRegex, source, 1))
    /\ UNCHANGED << source, structSize, estVars, fsVars, viewVars, auxVars >>

NextAgg == EstimateStruct \/ EstimateEnum

SpecAgg == InitAgg /\ [][NextAgg]_vars

(***************************************************************************)
(* C4: an enum's stack size is 8 plus the largest, over its variants, of   *)
(* the sum of the stack estimates of the variant's tuple payload types (0  *)
(* for a unit variant), also for payloads of two or more types.            *)
(***************************************************************************)
RECURSIVE PayloadStack(_)
PayloadStack(types) ==
    IF types = << >> THEN 0
    ELSE estimateTypeSize(Head(types), None).stack + PayloadStack(Tail(types))

LargestVariant(variants) ==
    IF variants = << >> THEN 0
    ELSE SetMax({PayloadStack(variants[j].payload) : j \in 1..Len(variants)})

C4_EnumDiscriminantPlusMax ==
    \A vs \in SeqsUpTo(Variants, MaxSegments) :
        (source = EnumSource(vs) /\ enumSize.some) => enumSize.v = 8 + LargestVariant(vs)

(***************************************************************************)
(* C7: a struct or union gets the sum of the stack estimates and the sum   *)
(* of the heap estimates of the segments of the form [pub] NAME : TYPE,    *)
(* and stack 8 when no segment has that form.                              *)
(***************************************************************************)
SizeSum(a, b) == SH(a.stack + b.stack, a.heap + b.heap)

RECURSIVE FieldSum(_)
FieldSum(segs) ==
    IF segs = << >> THEN SH(0, 0)
    ELSE IF Head(segs).type = "" THEN FieldSum(Tail(segs))
    ELSE SizeSum(estimateTypeSize(Head(segs).type, None), FieldSum(Tail(segs)))

NoField(segs) == \A j \in 1..Len(segs) : segs[j].type = ""

C7_StructSumsFields ==
    \A h \in StructHeads, segs \in SeqsUpTo(FieldSegments, MaxSegments) :
        (source = StructSource(h, segs) /\ structSize.some)
            => structSize.v = IF NoField(segs) THEN SH(8, 0) ELSE FieldSum(segs)

C7_Witness == source = "struct P { x: i32, y: i32 }" /\ structSize = Some(SH(8, 0))

(***************************************************************************)
(* C8: when no brace pair follows the keyword, a struct, union or enum     *)
(* gets the floor estimate of an empty body: stack 8, heap 0.              *)
(***************************************************************************)
HasBracePair(str) ==
    \E i \in 1..Len(str) : Ch(str, i) = "{" /\ \E j \in (i + 1)..Len(str) : Ch(str, j) = "}"

C8_BracelessFloor ==
    ~HasBracePair(source) =>
        /\ structSize.some => structSize.v = SH(8, 0)
        /\ enumSize.some => enumSize.v = 8

(***************************************************************************)
(* C27: the body of a struct, union or enum is the interior of the first   *)
(* balanced brace pair at or after the keyword: with a brace pair nested   *)
(* in the body, it runs to the brace that closes the opening one.          *)
(***************************************************************************)
Count(str, ch, from, to) == Cardinality({i \in from..to : Ch(str, i) = ch})

\* the position of the brace that closes the one at open, 0 when none does
ClosingOf(str, open) ==
    LET closes == {c \in (open + 1)..Len(str) :
                      /\ Ch(str, c) = "}"
                      /\ Count(str, "{", open, c) = Count(str, "}", open, c)}
    IN IF closes = {} THEN 0 ELSE SetMin(closes)

BalancedInterior(str, open) == SubSeq(str, open + 1, ClosingOf(str, open) - 1)

\* the body the estimators take from the text after the keyword
ExtractedBody(after) == Group(after, BodyOf(after), 1)

BodyBalanced(after) ==
    (IndexOf(after, "{", 1) # 0 /\ ClosingOf(after, IndexOf(after, "{", 1)) # 0)
        => (/\ BodyOf(after).ok
            /\ ExtractedBody(after) = BalancedInterior(after, IndexOf(after, "{", 1)))

KeywordAt(match) == match.ok /\ ~BodyBalanced(AfterIndex(source, match.index))

C27_BalancedBody ==
    (structSize.some \/ enumSize.some) =>
        ~\E re \in {structRegex, unionRegex, enumRegex} : KeywordAt(Exec(re, source, 1))

(***************************************************************************)
(* The walk over a workspace that grows by one entry at a time.            *)
(***************************************************************************)
MaxNodes == 3

DirNames == {"target", ".cargo", "node_modules", ".git", "src", "Target", "targets"}

FileNames == {"a.rs", "b.txt"}

IsDir(p) == p \in DOMAIN tree /\ tree[p].dir

\* the tree with one more entry, appended to the listing of parent
AddEntry(parent, name, node) ==
    [p \in DOMAIN tree \cup {PathJoin(parent, name)} |->
        IF p = PathJoin(parent, name) THEN node
        ELSE IF p = parent THEN DirNode(Append(tree[parent].entries, name))
        ELSE tree[p]]

InitWalk ==
    /\ tree = EmptyTree
    /\ unreadable = {}
    /\ found = None
    /\ result = None
    /\ EstIdle /\ AggIdle /\ ViewIdle /\ AuxIdle

Mkdir(parent, name) ==
    /\ found = None
    /\ IsDir(parent)
    /\ PathJoin(parent, name) \notin DOMAIN tree
    /\ Cardinality(DOMAIN tree) <= MaxNodes
    /\ tree' = AddEntry(parent, name, DirNode(<< >>))
    /\ UNCHANGED << unreadable, found, result, estVars, aggVars, viewVars, auxVars >>

CreateFile(parent, name) ==
    /\ found = None
    /\ IsDir(parent)
    /\ PathJoin(parent, name) \notin DOMAIN tree
    /\ Cardinality(DOMAIN tree) <= MaxNodes
    /\ tree' = AddEntry(parent, name, FileNode(""))
    /\ UNCHANGED << unreadable, found, result, estVars, aggVars, viewVars, auxVars >>

\* a directory loses its read permission: readdirSync on it throws from now on
DenyDir(dir) ==
    /\ found = None
    /\ IsDir(dir)
    /\ unreadable = {}
    /\ unreadable' = {dir}
    /\ UNCHANGED << tree, found, result, estVars, aggVars, viewVars, auxVars >>

\* findRustFilesSync(workspaceRoot) returns
Walk ==
    /\ found = None
    /\ found' = Some(findRustFilesSync(tree, unreadable, Root))
    /\ UNCHANGED << tree, unreadable, result, estVars, aggVars, viewVars, auxVars >>

NextWalk ==
    \/ \E parent \in DOMAIN tree, name \in DirNames : Mkdir(parent, name)
    \/ \E parent \in DOMAIN tree, name \in FileNames : CreateFile(parent, name)
    \/ \E dir \in DOMAIN tree : DenyDir(dir)
    \/ Walk

SpecWalk == InitWalk /\ [][NextWalk]_vars

(***************************************************************************)
(* C10: no returned path lies beneath a directory named exactly target,    *)
(* .cargo, node_modules or .git, at any depth; every file whose name ends  *)
(* in .rs and that has no such directory (and no unreadable one) above it  *)
(* is returned.                                                            *)
(***************************************************************************)
\* the names of the directories between the root and the file, and the
\* file's own name
Components(path) == Split(PathRelative(Root, path), "/")

UnderExcluded(path) ==
    \E j \in 1..(Len(Components(path)) - 1) :
        Components(path)[j] \in {"target", ".cargo", "node_modules", ".git"}

UnderUnreadable(path) == \E dir \in unreadable : StartsWith(path, dir \o "/") \/ dir = Root

RustFile(path) ==
    /\ ~tree[path].dir
    /\ Len(path) >= 3
    /\ SubSeq(path, Len(path) - 2, Len(path)) = ".rs"

Returned == {found.v[j] : j \in 1..Len(found.v)}

C10_DirectoryExclusion ==
    found.some =>
        /\ \A path \in Returned : ~UnderExcluded(path)
        /\ \A path \in DOMAIN tree :
             (RustFile(path) /\ ~UnderExcluded(path) /\ ~UnderUnreadable(path))
                 => path \in Returned

C10_Witness ==
    /\ found = Some(<< "/w/a.rs" >>)
    /\ "/w/target/a.rs" \in DOMAIN tree

(***************************************************************************)
(* C11: when the listing of one directory fails, only the files beneath    *)
(* it are missing: the walk returns exactly the .rs files that have no     *)
(* unreadable and no excluded directory above them, whether their entry    *)
(* comes before or after the failing one.                                  *)
(***************************************************************************)
Reachable ==
    {path \in DOMAIN tree : RustFile(path) /\ ~UnderExcluded(path) /\ ~UnderUnreadable(path)}

C11_UnreadableDirectorySkipped ==
    (found.some /\ unreadable # {}) => Returned = Reachable

C11_Witness ==
    /\ unreadable = {"/w/src"}
    /\ tree[Root].entries = << "src", "a.rs" >>
    /\ "/w/src/a.rs" \in DOMAIN tree
    /\ found = Some(<< "/w/a.rs" >>)

(***************************************************************************)
(* The scan of a workspace of three files.                                 *)
(***************************************************************************)
\* one declaration of each of the 13 kinds, in the order of the passes
Declarations ==
    << "let x: u8 = 1;", "fn f(a: u8) -> u8", "struct P { x: i32 }", "enum E { A(u8) }",
       "trait T", "impl T for P", "type A = u64;", "mod m", "union U { x: u8 }",
       "macro_rules! mac", "use a::b;", "extern crate c", "extern \"C\" {" >>

\* a declaration as it is, commented out, commented out with indentation above
\* a live copy, and live above an indented commented-out copy
\* const functions, with one and several blanks and with mut after const,
\* and a constant whose name begins with fn
ConstFnContents ==
    {"const fn f()", "const  \tfn f()", "const mut fn f()", "const fnord: u8 = 1;"}

\* methods and functions with each receiver form, a parameter whose name
\* begins with self, and a blank segment
ParamContents ==
    {"fn m(self)", "fn m(&self, a: u8)", "fn m(&mut self)", "fn m(mut self, b: u8)",
     "fn m(selfish: u8)", "fn m(a: u8, , b: u8)"}

FirstContents ==
    UNION {{Declarations[k],
            "// " \o Declarations[k],
            " \t// " \o Declarations[k] \o "\n" \o Declarations[k],
            Declarations[k] \o "\n  //" \o Declarations[k]} : k \in DOMAIN Declarations}
    \cup ConstFnContents \cup ParamContents

SecondContents == {"fn g()", "// fn g()\nmod n"}

ThirdContents == {"static mut K: u64 = 0;", "struct Q { y: u64 }"}

Workspace(a, b, c) ==
    [p \in {Root, "/w/a.rs", "/w/b.rs", "/w/c.rs"} |->
        CASE p = Root -> DirNode(<< "a.rs", "b.rs", "c.rs" >>)
          [] p = "/w/a.rs" -> FileNode(a)
          [] p = "/w/b.rs" -> FileNode(b)
          [] p = "/w/c.rs" -> FileNode(c)]

\* projects without a .rs file outside the excluded directories
BareProjects ==
    { EmptyTree,
      (Root :> DirNode(<< "b.txt" >>)) @@ ("/w/b.txt" :> FileNode("fn f()")),
      (Root :> DirNode(<< "target" >>)) @@ ("/w/target" :> DirNode(<< "a.rs" >>))
          @@ ("/w/target/a.rs" :> FileNode("fn f()")),
      (Root :> DirNode(<< "src", ".git" >>)) @@ ("/w/src" :> DirNode(<< >>))
          @@ ("/w/.git" :> DirNode(<< "a.rs" >>))
          @@ ("/w/.git/a.rs" :> FileNode("struct P { x: i32 }")) }

InitScan ==
    /\ \/ \E a \in FirstContents, b \in SecondContents, c \in ThirdContents :
             tree = Workspace(a, b, c)
       \/ tree \in BareProjects
    /\ unreadable = {}
    /\ found = None
    /\ result = None
    /\ EstIdle /\ AggIdle /\ ViewIdle /\ AuxIdle

\* a file loses its read permission or is removed: readFileSync on it throws
\* from now on
DenyFile(file) ==
    /\ result = None
    /\ ~tree[file].dir
    /\ file \notin unreadable
    /\ unreadable' = unreadable \cup {file}
    /\ UNCHANGED << tree, found, result, estVars, aggVars, viewVars, auxVars >>

\* analyzeRustVariables(workspaceRoot) returns
Scan ==
    /\ result = None
    /\ result' = Some(analyzeRustVariables(tree, unreadable, Root))
    /\ UNCHANGED << tree, unreadable, found, estVars, aggVars, viewVars, auxVars >>

NextScan ==
    \/ \E file \in DOMAIN tree : DenyFile(file)
    \/ Scan

SpecScan == InitScan /\ [][NextScan]_vars

(***************************************************************************)
(* C2: when reading one discovered file fails, the scan skips only that    *)
(* file: the result is the one the readable files alone give.              *)
(***************************************************************************)
ReadableOnly(files) ==
    LET IsReadable(file) == file \notin unreadable
    IN SelectSeq(files, IsReadable)

C2_UnreadableFileSkipped ==
    result.some =>
        result.v = AddAll(EmptyResult,
                          FileLoop(tree, Root, ReadableOnly(findRustFilesSync(tree, {}, Root))))

(***************************************************************************)
(* C12: the scan of a root with no .rs file outside the excluded           *)
(* directories returns no declarations, no groups and total_size 0.        *)
(***************************************************************************)
NoRustFiles == ~\E path \in DOMAIN tree : RustFile(path) /\ ~UnderExcluded(path)

C12_EmptyProject ==
    (result.some /\ NoRustFiles) =>
        result.v = [totalSize |-> 0, variables |-> << >>, typeCounts |-> << >>]

C12_Witness ==
    /\ "/w/target/a.rs" \in DOMAIN tree
    /\ unreadable = {}
    /\ result = Some([totalSize |-> 0, variables |-> << >>, typeCounts |-> << >>])

(***************************************************************************)
(* C9: no declaration of the result is recorded on a line whose trimmed    *)
(* text starts with //, and the groups and total_size hold what the        *)
(* recorded declarations contribute and nothing else.                      *)
(***************************************************************************)
CommentedOut(line) ==
    \E i \in 1..(Len(line) - 1) :
        /\ SubSeq(line, i, i + 1) = "//"
        /\ \A j \in 1..(i - 1) : SubSeq(line, j, j) \in {" ", "\t"}

RecordedLine(d) == Split(tree[Root \o "/" \o d.file].content, "\n")[d.line]

RECURSIVE SumSizes(_)
SumSizes(items) == IF items = << >> THEN 0 ELSE Head(items).size + SumSizes(Tail(items))

GroupKey(d) == d.declaration \o ": " \o d.type

Members(items, key) == {j \in 1..Len(items) : GroupKey(items[j]) = key}

OnlyRecorded(r) ==
    /\ r.totalSize = SumSizes(r.variables)
    /\ \A j \in 1..Len(r.variables) : GroupKey(r.variables[j]) \in DOMAIN r.typeCounts
    /\ \A key \in DOMAIN r.typeCounts :
         r.typeCounts[key].count = Cardinality(Members(r.variables, key))

NoneCommented(items) == \A j \in 1..Len(items) : ~CommentedOut(RecordedLine(items[j]))

C9_CommentedOutDiscarded ==
    result.some => (NoneCommented(result.v.variables) /\ OnlyRecorded(result.v))

C9_Witness ==
    /\ result.some
    /\ "/w/c.rs" \in DOMAIN tree
    /\ tree["/w/a.rs"].content = " \t// struct P { x: i32 }\nstruct P { x: i32 }"
    /\ tree["/w/b.rs"].content = "// fn g()\nmod n"
    /\ Len(result.v.variables) = 3
    /\ result.v.totalSize = 12

(***************************************************************************)
(* C14: after a scan, every group of typeCounts counts the declarations of *)
(* the result that carry its key (at least one) and holds the sum of their *)
(* sizes; every declaration's key is a group, and two declarations whose   *)
(* (declaration, type) pairs differ have different keys.                   *)
(***************************************************************************)
WithKey(items, key) ==
    LET Carries(d) == GroupKey(d) = key
    IN SelectSeq(items, Carries)

GroupHolds(r, key) ==
    /\ r.typeCounts[key].count = Len(WithKey(r.variables, key))
    /\ r.typeCounts[key].count >= 1
    /\ r.typeCounts[key].totalSize = SumSizes(WithKey(r.variables, key))

OneGroupEach(r) ==
    \A i, j \in 1..Len(r.variables) :
        /\ GroupKey(r.variables[i]) \in DOMAIN r.typeCounts
        /\ (GroupKey(r.variables[i]) = GroupKey(r.variables[j]))
             <=> (/\ r.variables[i].declaration = r.variables[j].declaration
                  /\ r.variables[i].type = r.variables[j].type)

C14_GroupIndex ==
    result.some =>
        (OneGroupEach(result.v) /\ \A key \in DOMAIN result.v.typeCounts : GroupHolds(result.v, key))

C14_Witness ==
    /\ result.some
    /\ "/w/c.rs" \in DOMAIN tree
    /\ tree["/w/a.rs"].content = "struct P { x: i32 }"
    /\ tree["/w/c.rs"].content = "struct Q { y: u64 }"
    /\ "struct: struct" \in DOMAIN result.v.typeCounts
    /\ result.v.typeCounts["struct: struct"] = [count |-> 2, totalSize |-> 12]
    /\ Cardinality(DOMAIN result.v.typeCounts) = 2

(***************************************************************************)
(* C15: after a scan, totalSize is the sum of size over the declarations   *)
(* of the returned variables, whatever their file and kind.                *)
(***************************************************************************)
C15_TotalIsSum == result.some => result.v.totalSize = SumSizes(result.v.variables)

C15_Witness ==
    /\ result.some
    /\ "/w/c.rs" \in DOMAIN tree
    /\ tree["/w/a.rs"].content = "union U { x: u8 }"
    /\ tree["/w/b.rs"].content = "// fn g()\nmod n"
    /\ tree["/w/c.rs"].content = "static mut K: u64 = 0;"
    /\ Len(result.v.variables) = 3
    /\ [j \in 1..3 |-> result.v.variables[j].size] = << 1, 0, 8 >>
    /\ result.v.totalSize = 9

(***************************************************************************)
(* C17: a scan that meets the same files in another order (any order of    *)
(* the root's listing, the reversed one among them) returns the same       *)
(* typeCounts and the same totalSize; only the order of variables differs. *)
(***************************************************************************)
Orders(seq) ==
    {[j \in 1..Len(seq) |-> seq[p[j]]] : p \in Permutations(1..Len(seq))}

Reversed(seq) == [j \in 1..Len(seq) |-> seq[Len(seq) + 1 - j]]

Listed(fsTree, entries) == [fsTree EXCEPT ![Root].entries = entries]

SameTotals(r, s) == r.typeCounts = s.typeCounts /\ r.totalSize = s.totalSize

C17_OrderIndependent ==
    result.some =>
        \A entries \in Orders(tree[Root].entries) :
            SameTotals(result.v, analyzeRustVariables(Listed(tree, entries), unreadable, Root))

C17_Witness ==
    /\ result.some
    /\ "/w/c.rs" \in DOMAIN tree
    /\ tree["/w/a.rs"].content = "struct P { x: i32 }"
    /\ tree["/w/b.rs"].content = "fn g()"
    /\ tree["/w/c.rs"].content = "struct Q { y: u64 }"
    /\ unreadable = {}
    /\ Reversed(tree[Root].entries) \in Orders(tree[Root].entries)
    /\ analyzeRustVariables(Listed(tree, Reversed(tree[Root].entries)), unreadable, Root).variables
          # result.v.variables
    /\ Len(result.v.variables) = 3
    /\ [j \in 1..3 |-> result.v.variables[j].name] = << "P", "g", "Q" >>
    /\ result.v.typeCounts["struct: struct"].totalSize = 12
    /\ result.v.totalSize = 28

(***************************************************************************)
(* C21: the binding pass records no declaration from the text              *)
(* const fn NAME(...), whatever the blanks between const and fn and with   *)
(* or without mut; no binding is named fn.                                 *)
(***************************************************************************)
BindingKinds == {"let", "let mut", "const", "const mut", "static", "static mut", "closure"}

ConstFnRe == Cat(<< Lit("const"), Plus(Sp), Opt(Cat(<< Lit("mut"), Plus(Sp) >>)),
                    Lit("fn"), WordB >>)

IsConstFn(line) == Match(line, ConstFnRe).ok

NoBindingFromConstFn(items) ==
    \A j \in 1..Len(items) :
        items[j].declaration \in BindingKinds =>
            (items[j].name # "fn" /\ ~IsConstFn(RecordedLine(items[j])))

C21_ConstFnExcluded == result.some => NoBindingFromConstFn(result.v.variables)

(***************************************************************************)
(* C22: the parameter count of a function is the number of comma-separated *)
(* segments of its parameter list that are not blank, the leading receiver *)
(* (self, mut self, &self, &mut self) left out; a parameter whose name     *)
(* only begins with self is counted.                                       *)
(***************************************************************************)
Receivers == {"self", "mut self", "&self", "&mut self"}

ParamList(line) ==
    SubSeq(line, IndexOf(line, "(", 1) + 1, IndexOf(line, ")", 1) - 1)

WithoutReceiver(segments) ==
    IF segments # << >> /\ Trim(Head(segments)) \in Receivers THEN Tail(segments) ELSE segments

ClaimedParamCount(line) == Len(WithoutReceiver(SelectSeq(Split(ParamList(line), ","), NonBlank)))

CountRecorded(d) ==
    StartsWith(d.type, "(" \o ToString(ClaimedParamCount(RecordedLine(d))) \o " params)")

C22_ParamCount ==
    result.some =>
        \A j \in 1..Len(result.v.variables) :
            result.v.variables[j].declaration = "fn" => CountRecorded(result.v.variables[j])

(***************************************************************************)
(* The usage colour: getUsageColor over the whole percentages.             *)
(***************************************************************************)
MaxPercent == 100

InitColor ==
    /\ percentage \in 0..MaxPercent
    /\ color = None
    /\ EstIdle /\ AggIdle /\ FsIdle /\ ViewIdle /\ WebIdle /\ LifeIdle

\* getUsageColor(percentage) returns
Colour ==
    /\ color = None
    /\ color' = Some(getUsageColor(percentage))
    /\ UNCHANGED << percentage, estVars, aggVars, fsVars, viewVars, webVars, lifeVars >>

NextColor == Colour

SpecColor == InitColor /\ [][NextColor]_vars

(***************************************************************************)
(* C25: the colour is green below 50, yellow from 50 to 80 inclusive, and  *)
(* red only above 80.                                                      *)
(***************************************************************************)
ClaimedColor(p) ==
    IF p < 50 THEN Green
    ELSE IF p <= 80 THEN Yellow
    ELSE Red

C25_ColourThresholds == color.some => color.v = ClaimedColor(percentage)

(***************************************************************************)
(* The provider: overlapping calls of updateMemoryInfo over a workspace    *)
(* whose one file is edited between them.                                  *)
(***************************************************************************)
MaxRuns == 3

\* the texts the editor saves to the file
FileTexts == {"let x: u8 = 1;", "// let z: i32 = 3;"}

\* what the process sampler resolves to: null, or the resident size it parsed
ProcInfos == {None, Some(2048)}

Init ==
    /\ tree = Project("let x: u8 = 1;")
    /\ unreadable = {}
    /\ found = None
    /\ result = None
    /\ view = FALSE
    /\ runs = << >>
    /\ posted = << >>
    /\ delivered = 0
    /\ EstIdle /\ AggIdle /\ AuxIdle

\* a call of updateMemoryInfo up to its second await: the scan runs to its end
\* inside the call (analyzeRustVariables awaits nothing), and the continuation
\* starts the process sampler before any other event is handled
\* StartRun with the accumulators of the scan kept from the call before
StartRunM ==
    [pc |-> "sampling", seen |-> << tree, unreadable >>,
     scan |-> IF runs = << >> THEN analyzeRustVariables(tree, unreadable, Root)
              ELSE AddAll(runs[Len(runs)].scan,
                          FileLoop(tree, Root, findRustFilesSync(tree, unreadable, Root)))]

\* (seen records the workspace the scan read)
StartRun ==
    [pc |-> "sampling", seen |-> << tree, unreadable >>,
     scan |-> analyzeRustVariables(tree, unreadable, Root)]

\* resolveWebviewView: this._view is set, the watchers, the editor listeners and
\* the 2-second timer are installed, and the first update is started
resolveWebviewView ==
    /\ ~view
    /\ view' = TRUE
    /\ runs' = Append(runs, StartRun)
    /\ UNCHANGED << posted, delivered, fsVars, estVars, aggVars, auxVars >>

\* the file is saved with another text
SaveFile(text) ==
    /\ tree["/w/a.rs"].content # text
    /\ tree' = Project(text)
    /\ UNCHANGED << unreadable, found, result, viewVars, estVars, aggVars, auxVars >>

\* the workspace root loses its read permission
DenyRoot ==
    /\ unreadable = {}
    /\ unreadable' = {Root}
    /\ UNCHANGED << tree, found, result, viewVars, estVars, aggVars, auxVars >>

\* updateMemoryInfo called by a watcher event, an editor event or the timer
updateMemoryInfo ==
    /\ view
    /\ Len(runs) < MaxRuns
    /\ runs' = Append(runs, StartRun)
    /\ UNCHANGED << view, posted, delivered, fsVars, estVars, aggVars, auxVars >>

\* the updateMemory message run i posts (run is not part of the message: it
\* records which call posted it)
ProjectRSS(procInfo) == IF procInfo.some THEN procInfo.v ELSE 0

MessageOf(i, scan, processRunning, projectRSS) ==
    [type |-> "updateMemory", run |-> i, processRunning |-> processRunning,
     rss |-> formatMemorySize(projectRSS),
     total |-> formatMemorySize(projectTotalMemory(projectRSS, scan.totalSize)),
     totalCount |-> Len(scan.variables), totalSize |-> scan.totalSize,
     typeCounts |-> TypeCountEntries(scan.typeCounts),
     variables |-> scan.variables]

Message(i, scan, procInfo) == MessageOf(i, scan, procInfo.some, ProjectRSS(procInfo))

\* the process sampler of run i resolves, and the rest of the call posts the
\* message
SamplerDone(i, procInfo) ==
    /\ runs[i].pc = "sampling"
    /\ runs' = [runs EXCEPT ![i].pc = "done"]
    /\ posted' = Append(posted, Message(i, runs[i].scan, procInfo))
    /\ UNCHANGED << view, delivered, fsVars, estVars, aggVars, auxVars >>

\* the webview's message listener handles the next updateMemory message
HandleMessage ==
    /\ delivered < Len(posted)
    /\ delivered' = delivered + 1
    /\ UNCHANGED << view, runs, posted, fsVars, estVars, aggVars, auxVars >>

Next ==
    \/ resolveWebviewView
    \/ \E text \in FileTexts : SaveFile(text)
    \/ DenyRoot
    \/ updateMemoryInfo
    \/ \E i \in DOMAIN runs, procInfo \in ProcInfos : SamplerDone(i, procInfo)
    \/ HandleMessage

Spec == Init /\ [][Next]_vars

(***************************************************************************)
(* C1: the updateMemory message of a run is never posted after the message *)
(* of a run that was triggered later, so the view never ends up holding    *)
(* the older scan.                                                         *)
(***************************************************************************)
C1_LastWriterWins ==
    \A i, j \in DOMAIN posted : i < j => posted[i].run < posted[j].run

(***************************************************************************)
(* C13: when the root directory cannot be read, what the view is sent      *)
(* differs from what it is sent for a project that was read and has no     *)
(* declarations.                                                           *)
(***************************************************************************)
RootFailed(m) == Root \in runs[m.run].seen[2]

\* the message as the webview receives it
Received(m) == [m EXCEPT !.run = 0]

C13_ScanUnavailableReported ==
    \A i, j \in DOMAIN posted :
        (RootFailed(posted[i]) /\ ~RootFailed(posted[j])) => Received(posted[i]) # Received(posted[j])

MessagesOf(i) == {k \in DOMAIN posted : posted[k].run = i}

CarriesScan(m, scan) ==
    /\ m.type = "updateMemory"
    /\ m.variables = scan.variables
    /\ m.totalSize = scan.totalSize
    /\ \A key \in DOMAIN scan.typeCounts :
         [type |-> key, count |-> scan.typeCounts[key].count,
          totalSize |-> scan.typeCounts[key].totalSize] \in m.typeCounts
    /\ Cardinality(m.typeCounts) = Cardinality(DOMAIN scan.typeCounts)

WithoutProcess(m, scan) ==
    /\ m.rss = "0.00 KB"
    /\ m.total = formatMemorySize(Ceil(scan.totalSize, 1024))

MaxCalls == 2

LoopTexts == {"mod m", "fn g()"}

TwoFiles(a, b) ==
    [p \in {Root, "/w/a.rs", "/w/b.rs"} |->
        CASE p = Root -> DirNode(<< "a.rs", "b.rs" >>)
          [] p = "/w/a.rs" -> FileNode(a)
          [] p = "/w/b.rs" -> FileNode(b)]

\* analyzeRustVariables with an await inside its file loop
ScanAwaitsM == TRUE

\* whether analyzeRustVariables gives the event loop a turn before it returns:
\* its body holds no await, and readdirSync and readFileSync are synchronous
ScanAwaits == FALSE

Scanning == {i \in DOMAIN runs : runs[i].pc = "scanning"}

\* the event loop starts a handler or a continuation only when no synchronous
\* code is running
LoopIdle == Scanning = {} \/ ScanAwaits

\* (interleaved records that a handler ran while the scan of the run was
\* between its start and its return; read records the content of each file
\* as the scan read it)
Interleave(rs) == [i \in DOMAIN rs |-> IF rs[i].pc = "scanning"
                                      THEN [rs[i] EXCEPT !.interleaved = TRUE] ELSE rs[i]]

InitLoop ==
    /\ tree = TwoFiles("mod m", "fn g()")
    /\ unreadable = {}
    /\ found = None
    /\ result = None
    /\ view = TRUE
    /\ runs = << >>
    /\ posted = << >>
    /\ delivered = 0
    /\ EstIdle /\ AggIdle /\ AuxIdle

\* a watcher event, an editor event or the timer calls updateMemoryInfo, which
\* enters analyzeRustVariables: the locals are initialised and the files found
UpdateCalled ==
    /\ view
    /\ LoopIdle
    /\ Len(runs) < MaxCalls
    /\ runs' = Append(Interleave(runs),
                      [pc |-> "scanning", seen |-> << tree, unreadable >>,
                       files |-> findRustFilesSync(tree, unreadable, Root),
                       read |-> << >>, entries |-> << >>, interleaved |-> FALSE,
                       scan |-> EmptyResult])
    /\ UNCHANGED << view, posted, delivered, fsVars, estVars, aggVars, auxVars >>

\* one round of the file loop of run i: the next file is read and its 13 passes
\* add their items
ScanNextFile(i) ==
    /\ i \in Scanning
    /\ Len(runs[i].read) < Len(runs[i].files)
    /\ LET file == runs[i].files[Len(runs[i].read) + 1]
       IN runs' = [runs EXCEPT ![i].read = Append(@, tree[file].content),
                               ![i].entries = @ \o scanFile(tree[file].content,
                                                            PathRelative(Root, file))]
    /\ UNCHANGED << view, posted, delivered, fsVars, estVars, aggVars, auxVars >>

\* analyzeRustVariables of run i returns and the call awaits the sampler
ScanReturns(i) ==
    /\ i \in Scanning
    /\ Len(runs[i].read) = Len(runs[i].files)
    /\ runs' = [runs EXCEPT ![i].pc = "sampling",
                            ![i].scan = AddAll(EmptyResult, runs[i].entries)]
    /\ UNCHANGED << view, posted, delivered, fsVars, estVars, aggVars, auxVars >>

\* another process saves a file with another text
WriteFile(file, text) ==
    /\ tree[file].content # text
    /\ tree' = [tree EXCEPT ![file].content = text]
    /\ UNCHANGED << unreadable, found, result, viewVars, estVars, aggVars, auxVars >>

\* the sampler of run i resolves and the rest of the call posts the message
SamplerResolves(i, procInfo) ==
    /\ runs[i].pc = "sampling"
    /\ LoopIdle
    /\ runs' = [Interleave(runs) EXCEPT ![i].pc = "done"]
    /\ posted' = Append(posted, Message(i, runs[i].scan, procInfo))
    /\ UNCHANGED << view, delivered, fsVars, estVars, aggVars, auxVars >>

NextLoop ==
    \/ UpdateCalled
    \/ \E i \in DOMAIN runs : ScanNextFile(i)
    \/ \E i \in DOMAIN runs : ScanReturns(i)
    \/ \E text \in LoopTexts : WriteFile("/w/b.rs", text)
    \/ \E i \in DOMAIN runs : SamplerResolves(i, Some(2048))

SpecLoop == InitLoop /\ [][NextLoop]_vars

(***************************************************************************)
(* C26: no handler runs between the start of a scan and its return, at     *)
(* most one scan is under way, and the result a scan returns holds exactly *)
(* the declarations of one pass over the files it found, each read once.   *)
(***************************************************************************)
\* the workspace as run read it: the files it found, with the contents read
AsRead(run) ==
    [p \in DOMAIN run.seen[1] |->
        IF \E j \in 1..Len(run.read) : run.files[j] = p
        THEN FileNode(run.read[CHOOSE j \in 1..Len(run.read) : run.files[j] = p])
        ELSE run.seen[1][p]]

OnePass(run) ==
    run.pc # "scanning" =>
        (/\ Len(run.read) = Len(run.files)
         /\ run.scan = analyzeRustVariables(AsRead(run), run.seen[2], Root))

MaxListLen == 2

SampleVariables ==
    {Decl("x", "let", "u8", 1, 0, 1, "a.rs", 1),
     Decl("Parse", "fn", "(0 params) -> ()", 16, 0, 16, "src/Lib.rs", 3),
     Decl("P", "struct", "struct", 4, 0, 4, "b.rs", 2),
     Decl("fnord", "const", "String", 24, 64, 88, "a.rs", 2)}

VariableLists == SeqsUpTo(SampleVariables, MaxListLen)

SearchTerms == {"", "x", "P", "LIB", "string", "a.rs", "fn", "zzz"}

InitWeb ==
    /\ currentVariables = << >>
    /\ searchTerm = ""
    /\ rows = None
    /\ lastReceived = << >>
    /\ EstIdle /\ AggIdle /\ FsIdle /\ ViewIdle /\ ColorIdle /\ LifeIdle

\* the message listener handles an updateMemory message: the list is stored,
\* filtered by the value of the search box, and the table is rebuilt
ReceiveUpdate(variables) ==
    /\ currentVariables' = variables
    /\ lastReceived' = variables
    /\ rows' = Some(filterVariables(currentVariables', searchTerm))
    /\ UNCHANGED << searchTerm, estVars, aggVars, fsVars, viewVars, colorVars, lifeVars >>

\* the input listener of the search box: the user has changed its value
SearchInput(term) ==
    /\ term # searchTerm
    /\ searchTerm' = term
    /\ rows' = Some(filterVariables(currentVariables, term))
    /\ UNCHANGED << currentVariables, lastReceived, estVars, aggVars, fsVars, viewVars,
                    colorVars, lifeVars >>

NextWeb ==
    \/ \E variables \in VariableLists : ReceiveUpdate(variables)
    \/ \E term \in SearchTerms : SearchInput(term)

SpecWeb == InitWeb /\ [][NextWeb]_vars

(***************************************************************************)
(* C30: after any updateMemory messages and search inputs, the rows are    *)
(* the variables of the last message received whose name, type, file or    *)
(* declaration holds the search term as a substring, letter case ignored    *)
(* (all of them for the empty term); the stored list is the list of the    *)
(* last message.                                                           *)
(***************************************************************************)
SameLetter(a, b) == a = b \/ LowerOf(a) = LowerOf(b)

HoldsTerm(field, term) ==
    \E i \in 1..(Len(field) - Len(term) + 1) :
        \A k \in 1..Len(term) : SameLetter(Ch(field, i + k - 1), Ch(term, k))

MatchesTerm(variable, term) ==
    \/ HoldsTerm(variable.name, term)
    \/ HoldsTerm(variable.type, term)
    \/ HoldsTerm(variable.file, term)
    \/ HoldsTerm(variable.declaration, term)

Matching(variables, term) ==
    LET HasTerm(variable) == MatchesTerm(variable, term)
    IN SelectSeq(variables, HasTerm)

C30_RowsAreFilteredLastMessage ==
    /\ currentVariables = lastReceived
    /\ rows.some => rows.v = Matching(lastReceived, searchTerm)

C30_Witness ==
    /\ searchTerm = "LIB"
    /\ Len(lastReceived) = MaxListLen
    /\ lastReceived[1].name = "x"
    /\ lastReceived[2].name = "Parse"
    /\ rows.some
    /\ Len(rows.v) = 1
    /\ rows.v[1].file = "src/Lib.rs"

(***************************************************************************)
(* The life of the provider: the view is resolved, events and timer ticks  *)
(* call updateMemoryInfo, and dispose() is called.                         *)
(***************************************************************************)
MaxResolves == 2

MaxStarts == 3

\* what one call of resolveWebviewView pushes on this._disposables (the
\* workspace has a root folder, so the file watcher is among them)
Registered(n) ==
    << [kind |-> "messageHandler", id |-> n], [kind |-> "watcher", id |-> n],
       [kind |-> "editorWatcher", id |-> n], [kind |-> "documentWatcher", id |-> n] >>

Range(seq) == {seq[i] : i \in DOMAIN seq}

InitLife ==
    /\ tree = Project("let x: u8 = 1;")
    /\ unreadable = {}
    /\ found = None
    /\ result = None
    /\ view = FALSE
    /\ runs = << >>
    /\ posted = << >>
    /\ delivered = 0
    /\ LifeIdle
    /\ EstIdle /\ AggIdle /\ ColorIdle /\ WebIdle

\* this.updateMemoryInfo() called by trigger by: nothing happens without a
\* view, otherwise the run starts
Called(by, hasView, afterDispose) ==
    IF hasView
    THEN /\ runs' = Append(runs, StartRun)
         /\ starts' = Append(starts, [by |-> by, disposed |-> afterDispose])
    ELSE UNCHANGED << runs, starts >>

\* resolveWebviewView, called for the n-th time (each call so far has left
\* one timer)
Resolve(n) ==
    /\ n = timers + 1
    /\ n <= MaxResolves
    /\ Len(runs) < MaxStarts
    /\ view' = TRUE
    /\ disposables' = disposables \o Registered(n)
    /\ subscriptions' = subscriptions \cup Range(Registered(n))
    /\ timers' = timers + 1
    /\ disposed' = FALSE
    /\ Called("resolve", TRUE, FALSE)
    /\ UNCHANGED << posted, delivered, fsVars, estVars, aggVars, colorVars, webVars >>

\* dispose()
dispose ==
    /\ ~disposed
    /\ subscriptions' = subscriptions \ Range(disposables)
    /\ disposables' = << >>
    /\ disposed' = TRUE
    /\ UNCHANGED << view, timers, starts, runs, posted, delivered, fsVars, estVars, aggVars,
                    colorVars, webVars >>

\* a live subscription's callback runs
Trigger(h, by) ==
    /\ h \in subscriptions
    /\ h.kind = by
    /\ Len(runs) < MaxStarts
    /\ Called(by, view, disposed)
    /\ UNCHANGED << view, disposables, subscriptions, timers, disposed, posted, delivered,
                    fsVars, estVars, aggVars, colorVars, webVars >>

\* a Rust file was created, changed or deleted
WatcherEvent(h) == Trigger(h, "watcher")

\* the active editor changed
EditorEvent(h) == Trigger(h, "editorWatcher")

\* a document whose name ends with .rs changed
DocumentEvent(h) == Trigger(h, "documentWatcher")

\* the callback of live timer n runs
TimerTick(n) ==
    /\ n \in 1..timers
    /\ Len(runs) < MaxStarts
    /\ Called("timer", view, disposed)
    /\ UNCHANGED << view, disposables, subscriptions, timers, disposed, posted, delivered,
                    fsVars, estVars, aggVars, colorVars, webVars >>

NextLife ==
    \/ \E n \in 1..MaxResolves : Resolve(n)
    \/ dispose
    \/ \E h \in subscriptions : WatcherEvent(h)
    \/ \E h \in subscriptions : EditorEvent(h)
    \/ \E h \in subscriptions : DocumentEvent(h)
    \/ \E n \in 1..MaxResolves : TimerTick(n)
    \/ \E i \in DOMAIN runs : SamplerDone(i, Some(2048))

SpecLife == InitLife /\ [][NextLife]_vars

\* the subscriptions kept in this._disposables are released by dispose()
SubscriptionsReleased ==
    /\ disposed => subscriptions = {}
    /\ \A i \in DOMAIN starts : starts[i].disposed => starts[i].by = "timer"

(***************************************************************************)
(* C29: once dispose() has returned, no watcher event, editor event,        *)
(* document change or timer tick starts a run of updateMemoryInfo, and     *)
(* however often the view is resolved at most one periodic timer is live.  *)
(***************************************************************************)
C29_DisposeReleasesTriggers ==
    /\ \A i \in DOMAIN starts : ~starts[i].disposed
    /\ timers <= 1

=============================================================================
